---- MODULE Spec2Model ----
(***************************************************************************)
(* A model of the BeDIS server's database layer (src/src/SqlWrapper.c) and *)
(* of its geo-fence packet receiver (src/src/Geo-Fencing.c).               *)
(*                                                                         *)
(* The module holds several specifications over one set of variables:      *)
(*   Spec           the database connection pool and the threads using it  *)
(*   SpecIngest     SQL_update_object_tracking_data_with_battery_voltage   *)
(*   SpecViolation  the violation identifier and the event collection      *)
(*   SpecDrain      SQL_get_and_update_violation_events                    *)
(*   SpecRecv       process_api_recv and the worker pool                   *)
(* A specification leaves the variables of the other parts unchanged.      *)
(***************************************************************************)
EXTENDS Integers, Sequences, FiniteSets, TLC

\* ------------------------------------------------------------------------
\* Bounds of the model
\* ------------------------------------------------------------------------
MaxPool == 6
NumThreads == 2
MaxRecords == 2
MaxRuns == 2            \* runs of the periodic violation job
MaxSightings == 1       \* panic and geo-fence sightings during those runs
MaxTime == 2            \* seconds the clock advances
MaxFailures == 1        \* statements of the job that fail
MaxCalls == 2           \* calls of SQL_get_and_update_violation_events
MaxNotifications == 3   \* rows of notification_table before a drain
MaxPackets == 3         \* datagrams the receiver gets
NumWorkers == 1         \* threads of the worker pool
MaxTracks == 3          \* rows that reach tracking_table for the summarizer
MaxPasses == 2          \* calls of SQL_summarize_object_location
MaxRegistrations == 2   \* registration reports that are applied
MaxOldNotifications == 2  \* rows of notification_table before the retention

\* ------------------------------------------------------------------------
\* Program constants
\* ------------------------------------------------------------------------
MEMORY_ALLOCATE_RETRIES == 5
SQL_GET_AVAILABLE_CONNECTION_RETRIES == 2
SLOTS_IN_MEM_POOL == 2

WORK_SUCCESSFULLY == "WORK_SUCCESSFULLY"
E_SQL_OPEN_DATABASE == "E_SQL_OPEN_DATABASE"
E_SQL_EXECUTE == "E_SQL_EXECUTE"
E_API_PROTOCOL_FORMAT == "E_API_PROTOCOL_FORMAT"
E_OPEN_FILE == "E_OPEN_FILE"
E_INPUT_PARAMETER == "E_INPUT_PARAMETER"
E_SQL_PARSE == "E_SQL_PARSE"
NONE == "NONE"

VARIABLES
    \* --- DBConnectionListHead: the pool ---
    pool_created,   \* SQL_create_database_connection_pool has returned
    max_connection, \* the size the pool was created with
    entry,          \* node id -> [serial_id, is_used, db]   (DBConnectionNode)
    lnext,          \* node id -> next pointer of its list_entry (0 is the head)
    lprev,          \* node id -> prev pointer of its list_entry (0 is the head)
    list_lock,      \* 0 when free, else the thread holding list_lock
    \* --- the threads running SQL_* operations ---
    pc,             \* thread -> position
    cur,            \* thread -> current_list_entry of its running pool call
    retry_times,    \* thread -> retry_times of SQL_get_database_connection
    db_serial_id,   \* thread -> the operation's db_serial_id (-1 initially)
    db_conn,        \* thread -> the operation's db_conn (0 is NULL)
    holds,          \* thread -> serial ids acquired and not yet released
    \* --- the database ---
    now,                 \* the clock behind NOW() and get_system_time(), in seconds
    object_table,        \* mac -> [monitor_type, area_id, room]
    object_summary_table,\* mac -> the object's summary row
    tracking_table,      \* the rows of tracking_table, in insertion order
    \* --- SQL_update_object_tracking_data_with_battery_voltage (thread 1) ---
    ing,                 \* the locals of the running call (see IngestIdle)
    csv_file,            \* the rows written to <install>/temp/track_<thread id>
    file_exists,         \* whether that file exists
    \* --- the tables of the violation pipeline ---
    lbeacon_table,       \* uuid -> [room, danger_area]
    monitor_config,      \* table name -> its row (one area)
    notification_table,  \* the rows of notification_table, in id order
    hrun,                \* the periodic violation job: its step and its record
    \* --- SQL_get_and_update_violation_events ---
    drain,               \* the locals of the running call and what was delivered
    \* --- Geo-Fencing: process_api_recv and the worker pool ---
    recv,                \* the receiver, the packet pool and the worker pool
    \* --- SQL_summarize_object_location ---
    summ,                \* the position and the arguments of the running call
    \* --- the registration reports ---
    reg,                 \* gateway_table and the record of the calls
    maint                \* the last retention or vacuum call and what it returned

poolVars == <<pool_created, max_connection, entry, lnext, lprev, list_lock>>
threadVars == <<pc, cur, retry_times, db_serial_id, db_conn, holds>>
dbVars == <<now, object_table, object_summary_table, tracking_table>>
ingestVars == <<ing, csv_file, file_exists>>
hVars == <<lbeacon_table, monitor_config, notification_table, hrun>>
otherVars == <<hVars, drain, recv, summ, reg, maint>>
nonPoolVars == <<dbVars, ingestVars, otherVars>>

Threads == 1..NumThreads
HEAD == 0

\* ------------------------------------------------------------------------
\* Intrusive list utilities (LinkedList.h)
\* ------------------------------------------------------------------------
\* A list state is a record [nx, pv] of the two pointer maps.
init_entry(l, e) ==
    [nx |-> [x \in DOMAIN l.nx \cup {e} |-> IF x = e THEN e ELSE l.nx[x]],
     pv |-> [x \in DOMAIN l.pv \cup {e} |-> IF x = e THEN e ELSE l.pv[x]]]

\* next->prev = new; new->next = next; new->prev = prev; prev->next = new
insert_entry_list(l, new, prv, nxt) ==
    LET l1 == [l  EXCEPT !.pv[nxt] = new]
        l2 == [l1 EXCEPT !.nx[new] = nxt]
        l3 == [l2 EXCEPT !.pv[new] = prv]
    IN  [l3 EXCEPT !.nx[prv] = new]

insert_list_tail(l, new) == insert_entry_list(l, new, l.pv[HEAD], HEAD)

\* The nodes list_for_each visits from the head, in order; the walk stops at
\* the head or at a node it has already visited (a list that no longer
\* returns to the head).
RECURSIVE Walk(_, _, _)
Walk(nx, e, seen) ==
    IF e = HEAD \/ e \in seen THEN <<>>
    ELSE <<e>> \o Walk(nx, nx[e], seen \cup {e})

ListNodes == Walk(lnext, lnext[HEAD], {})

\* ------------------------------------------------------------------------
\* SQL_create_database_connection_pool
\* ------------------------------------------------------------------------
\* One iteration state: i, retry_times, db_connection (0 before any malloc),
\* the number of nodes allocated, the entries and the list.
RECURSIVE CreateLoop(_, _)
CreateLoop(st, n) ==
    IF st.i >= n THEN st
    ELSE
      LET \* while(retry_times --){ malloc; if(NULL != db_connection) break; }
          enters == st.retry # 0
          retry1 == st.retry - 1
          node   == IF enters THEN st.nalloc + 1 ELSE st.db_connection
          nalloc == IF enters THEN st.nalloc + 1 ELSE st.nalloc
          \* memset, init_entry, serial_id = i, is_used = 0, db = PQconnectdb
          l1 == init_entry(st.list, node)
          e1 == [x \in DOMAIN st.entry \cup {node} |->
                   IF x = node
                   THEN [serial_id |-> st.i, is_used |-> 0, db |-> st.i + 1]
                   ELSE st.entry[x]]
          l2 == insert_list_tail(l1, node)
      IN CreateLoop([i |-> st.i + 1, retry |-> retry1, db_connection |-> node,
                     nalloc |-> nalloc, entry |-> e1, list |-> l2], n)

CreatePool(n) ==
    CreateLoop([i |-> 0, retry |-> MEMORY_ALLOCATE_RETRIES, db_connection |-> 0,
                nalloc |-> 0, entry |-> <<>>,
                list |-> [nx |-> (HEAD :> HEAD), pv |-> (HEAD :> HEAD)]], n)

SQL_create_database_connection_pool(n) ==
    /\ ~pool_created
    /\ list_lock = 0
    /\ LET st == CreatePool(n)
       IN /\ entry' = st.entry
          /\ lnext' = st.list.nx
          /\ lprev' = st.list.pv
    /\ max_connection' = n
    /\ pool_created' = TRUE
    /\ UNCHANGED <<list_lock, threadVars>>
    /\ UNCHANGED nonPoolVars

\* ------------------------------------------------------------------------
\* SQL_destroy_database_connection_pool
\* ------------------------------------------------------------------------
\* Under list_lock, list_for_each_safe over the list: PQfinish of the
\* entry's handle, remove_list_node, free of the entry; is_used is not
\* read. The head is left pointing to itself.
SQL_destroy_database_connection_pool ==
    /\ pool_created
    /\ list_lock = 0
    /\ ListNodes # <<>>
    /\ entry' = [e \in DOMAIN entry \ {ListNodes[k] : k \in DOMAIN ListNodes} |->
                    entry[e]]
    /\ lnext' = (HEAD :> HEAD)
    /\ lprev' = (HEAD :> HEAD)
    /\ UNCHANGED <<pool_created, max_connection, list_lock, threadVars>>
    /\ UNCHANGED nonPoolVars

\* ------------------------------------------------------------------------
\* SQL_get_database_connection
\* ------------------------------------------------------------------------
\* a lock that never blocks
MutexFreeAlways(t) == TRUE
\* pthread_mutex_lock(&list_lock) can return for thread t
MutexFree(t) == list_lock = 0

\* An operation that holds no connection calls SQL_get_database_connection.
GetCall(t) ==
    /\ pool_created
    /\ pc[t] = "idle"
    /\ retry_times' = [retry_times EXCEPT ![t] = SQL_GET_AVAILABLE_CONNECTION_RETRIES]
    /\ pc' = [pc EXCEPT ![t] = "get_retry"]
    /\ UNCHANGED <<poolVars, cur, db_serial_id, db_conn, holds>>
    /\ UNCHANGED nonPoolVars

\* while(retry_times --)
GetRetry(t) ==
    /\ pc[t] = "get_retry"
    /\ retry_times' = [retry_times EXCEPT ![t] = @ - 1]
    /\ IF retry_times[t] # 0
       THEN pc' = [pc EXCEPT ![t] = "get_lock"]
       ELSE pc' = [pc EXCEPT ![t] = "idle"]       \* return E_SQL_OPEN_DATABASE
    /\ UNCHANGED <<poolVars, cur, db_serial_id, db_conn, holds>>
    /\ UNCHANGED nonPoolVars

GetLock(t) ==
    /\ pc[t] = "get_lock"
    /\ MutexFree(t)
    /\ list_lock' = t
    /\ cur' = [cur EXCEPT ![t] = lnext[HEAD]]
    /\ pc' = [pc EXCEPT ![t] = "get_scan"]
    /\ UNCHANGED <<pool_created, max_connection, entry, lnext, lprev,
                   retry_times, db_serial_id, db_conn, holds>>
    /\ UNCHANGED nonPoolVars

\* list_for_each: one node; if(current_list_ptr->is_used == 0)
GetScan(t) ==
    /\ pc[t] = "get_scan"
    /\ IF cur[t] = HEAD
       THEN /\ pc' = [pc EXCEPT ![t] = "get_unlock_miss"]
            /\ cur' = cur
       ELSE IF entry[cur[t]].is_used = 0
       THEN /\ pc' = [pc EXCEPT ![t] = "get_take"]
            /\ cur' = cur
       ELSE /\ pc' = pc
            /\ cur' = [cur EXCEPT ![t] = lnext[cur[t]]]
    /\ UNCHANGED <<poolVars, retry_times, db_serial_id, db_conn, holds>>
    /\ UNCHANGED nonPoolVars

\* *db = ->db; *serial_id = ->serial_id; ->is_used = 1
GetTake(t) ==
    /\ pc[t] = "get_take"
    /\ db_conn' = [db_conn EXCEPT ![t] = entry[cur[t]].db]
    /\ db_serial_id' = [db_serial_id EXCEPT ![t] = entry[cur[t]].serial_id]
    /\ entry' = [entry EXCEPT ![cur[t]].is_used = 1]
    /\ pc' = [pc EXCEPT ![t] = "get_unlock_hit"]
    /\ UNCHANGED <<pool_created, max_connection, lnext, lprev, list_lock,
                   cur, retry_times, holds>>
    /\ UNCHANGED nonPoolVars

\* pthread_mutex_unlock; return WORK_SUCCESSFULLY
GetUnlockHit(t) ==
    /\ pc[t] = "get_unlock_hit"
    /\ list_lock' = IF list_lock = t THEN 0 ELSE list_lock
    /\ holds' = [holds EXCEPT ![t] = @ \cup {db_serial_id[t]}]
    /\ pc' = [pc EXCEPT ![t] = "hold"]
    /\ UNCHANGED <<pool_created, max_connection, entry, lnext, lprev,
                   cur, retry_times, db_serial_id, db_conn>>
    /\ UNCHANGED nonPoolVars

\* pthread_mutex_unlock at the end of a scan that found no free entry
GetUnlockMiss(t) ==
    /\ pc[t] = "get_unlock_miss"
    /\ list_lock' = IF list_lock = t THEN 0 ELSE list_lock
    /\ pc' = [pc EXCEPT ![t] = "get_retry"]
    /\ UNCHANGED <<pool_created, max_connection, entry, lnext, lprev,
                   cur, retry_times, db_serial_id, db_conn, holds>>
    /\ UNCHANGED nonPoolVars

\* ------------------------------------------------------------------------
\* SQL_release_database_connection
\* ------------------------------------------------------------------------
\* The holder has run its SQL and calls release with its db_serial_id.
ReleaseCall(t) ==
    /\ pc[t] = "hold"
    /\ pc' = [pc EXCEPT ![t] = "rel_lock"]
    /\ UNCHANGED <<poolVars, cur, retry_times, db_serial_id, db_conn, holds>>
    /\ UNCHANGED nonPoolVars

ReleaseLock(t) ==
    /\ pc[t] = "rel_lock"
    /\ MutexFree(t)
    /\ list_lock' = t
    /\ cur' = [cur EXCEPT ![t] = lnext[HEAD]]
    /\ pc' = [pc EXCEPT ![t] = "rel_scan"]
    /\ UNCHANGED <<pool_created, max_connection, entry, lnext, lprev,
                   retry_times, db_serial_id, db_conn, holds>>
    /\ UNCHANGED nonPoolVars

\* list_for_each: one node; if(current_list_ptr->serial_id == serial_id)
ReleaseScan(t) ==
    /\ pc[t] = "rel_scan"
    /\ IF cur[t] = HEAD
       THEN /\ pc' = [pc EXCEPT ![t] = "rel_unlock"]   \* E_SQL_OPEN_DATABASE
            /\ UNCHANGED <<entry, cur, holds>>
       ELSE IF entry[cur[t]].serial_id = db_serial_id[t]
       THEN /\ entry' = [entry EXCEPT ![cur[t]].is_used = 0]
            /\ holds' = [holds EXCEPT ![t] = @ \ {db_serial_id[t]}]
            /\ pc' = [pc EXCEPT ![t] = "rel_unlock"]
            /\ cur' = cur
       ELSE /\ cur' = [cur EXCEPT ![t] = lnext[cur[t]]]
            /\ UNCHANGED <<entry, pc, holds>>
    /\ UNCHANGED <<pool_created, max_connection, lnext, lprev, list_lock,
                   retry_times, db_serial_id, db_conn>>
    /\ UNCHANGED nonPoolVars

ReleaseUnlock(t) ==
    /\ pc[t] = "rel_unlock"
    /\ list_lock' = IF list_lock = t THEN 0 ELSE list_lock
    /\ pc' = [pc EXCEPT ![t] = "idle"]
    /\ UNCHANGED <<pool_created, max_connection, entry, lnext, lprev,
                   cur, retry_times, db_serial_id, db_conn, holds>>
    /\ UNCHANGED nonPoolVars


\* ------------------------------------------------------------------------
\* A whole pool call as one step (the pool's mutex makes each scan atomic)
\* ------------------------------------------------------------------------
FreeNodes == SelectSeq(ListNodes, LAMBDA e : entry[e].is_used = 0)

\* SQL_get_database_connection returns WORK_SUCCESSFULLY
GetSucceeds == FreeNodes # <<>>

\* its effect then: the first free entry in list order is taken
AcquireFirstFree(t) ==
    LET e == Head(FreeNodes)
    IN /\ entry' = [entry EXCEPT ![e].is_used = 1]
       /\ db_serial_id' = [db_serial_id EXCEPT ![t] = entry[e].serial_id]
       /\ db_conn' = [db_conn EXCEPT ![t] = entry[e].db]
       /\ holds' = [holds EXCEPT ![t] = @ \cup {entry[e].serial_id}]
       /\ pc' = [pc EXCEPT ![t] = "hold"]
       /\ UNCHANGED <<pool_created, max_connection, lnext, lprev, list_lock,
                      cur, retry_times>>

\* a return without the release
ReturnHolding(t) ==
    /\ pc' = [pc EXCEPT ![t] = "idle"]
    /\ UNCHANGED <<pool_created, max_connection, entry, lnext, lprev,
                   list_lock, cur, retry_times, db_serial_id, db_conn, holds>>

\* SQL_release_database_connection(db_serial_id): the first entry with that
\* serial id is marked free
ReleaseSerial(t) ==
    LET hit == SelectSeq(ListNodes,
                         LAMBDA e : entry[e].serial_id = db_serial_id[t])
    IN /\ entry' = IF hit = <<>> THEN entry
                   ELSE [entry EXCEPT ![Head(hit)].is_used = 0]
       /\ holds' = IF hit = <<>> THEN holds
                   ELSE [holds EXCEPT ![t] = @ \ {db_serial_id[t]}]
       /\ pc' = [pc EXCEPT ![t] = "idle"]
       /\ UNCHANGED <<pool_created, max_connection, lnext, lprev, list_lock,
                      cur, retry_times, db_serial_id, db_conn>>

\* Another operation of the engine takes and returns a connection.
OtherThread == 2

OtherGet ==
    /\ pc[OtherThread] = "idle"
    /\ GetSucceeds
    /\ AcquireFirstFree(OtherThread)
    /\ UNCHANGED nonPoolVars

OtherRelease ==
    /\ pc[OtherThread] = "hold"
    /\ ReleaseSerial(OtherThread)
    /\ UNCHANGED nonPoolVars

\* ------------------------------------------------------------------------
\* Values of the database and of the payloads
\* ------------------------------------------------------------------------
MONITOR_GEO_FENCE == 1
MONITOR_PANIC == 2
MONITOR_MOVEMENT == 4
MONITOR_LOCATION == 8

NULLTS == -1          \* a NULL timestamp column
NULL == "<NULL>"      \* a NULL char pointer
Macs == {"m1", "m2"}

RECURSIVE BitAnd(_, _)
BitAnd(a, b) ==
    IF a = 0 \/ b = 0 THEN 0
    ELSE (IF a % 2 = 1 /\ b % 2 = 1 THEN 1 ELSE 0) + 2 * BitAnd(a \div 2, b \div 2)

\* atoi on the tokens of the model: the leading decimal number, else 0
atoi(tok) ==
    CASE tok = "0" -> 0
      [] tok = "1" -> 1
      [] tok = "2" -> 2
      [] tok = "100" -> 100
      [] tok = "1000" -> 1000
      [] tok = "3000" -> 3000
      [] tok = "86500" -> 86500
      [] tok = "-60" -> -60
      [] tok = "-1" -> -1
      [] OTHER -> 0

\* the tokens the database accepts as the text of an integer column
IsIntText(tok) ==
    tok \in {"0", "1", "2", "100", "1000", "3000", "86500", "-60"}

\* gmtime + strftime("%Y-%m-%d %H:%M:%S"): the date and the time of day
FormatTime(t) == [date |-> t \div 86400, time |-> t % 86400]

\* the timestamp the database reads from that text, in epoch seconds
ParseTimestamp(f) == f.date * 86400 + f.time

\* strtok_save(NULL, ";", &saveptr) on the remaining tokens
Tok(toks, k) == IF Len(toks) >= k THEN toks[k] ELSE NULL
Drop(toks, k) == IF Len(toks) >= k THEN SubSeq(toks, k + 1, Len(toks)) ELSE <<>>

\* printf("%s") of a token
PrintS(tok) == IF tok = NULL THEN "(null)" ELSE tok

\* ------------------------------------------------------------------------
\* SQL_update_object_tracking_data_with_battery_voltage
\* ------------------------------------------------------------------------
IngestThread == 1

IngestIdle ==
    [pc |-> "idle", buf |-> <<>>, report |-> NONE, toks |-> <<>>,
     current_time |-> 0, lbeacon_uuid |-> NULL, lbeacon_timestamp_value |-> 0,
     num_types |-> 0, numbers |-> 0,
     object_mac_address |-> NULL, initial_timestamp_GMT |-> NULL,
     final_timestamp_GMT |-> NULL, rssi |-> NULL, panic_button |-> NULL,
     ret_val |-> WORK_SUCCESSFULLY, ret |-> NONE,
     is_enabled_panic_monitoring |-> 0]

\* fopen(filename, "wt") and the header of the message
IngestCall(payload, report, fopen_ok, is_enabled_panic_monitoring) ==
    /\ ing.pc = "idle"
    /\ IF ~fopen_ok
       THEN /\ ing' = [ing EXCEPT !.is_enabled_panic_monitoring = is_enabled_panic_monitoring,
                       !.pc = "done", !.buf = payload,
                                  !.report = report, !.ret = E_OPEN_FILE]
            /\ UNCHANGED <<csv_file, file_exists>>
       ELSE /\ csv_file' = <<>>
            /\ file_exists' = TRUE
            /\ IF Tok(payload, 2) = NULL
               THEN ing' = [ing EXCEPT !.is_enabled_panic_monitoring = is_enabled_panic_monitoring,
                       !.pc = "done", !.buf = payload,
                                       !.report = report,
                                       !.current_time = now,
                                       !.lbeacon_uuid = Tok(payload, 1),
                                       !.ret = E_API_PROTOCOL_FORMAT]
               ELSE ing' = [ing EXCEPT !.is_enabled_panic_monitoring = is_enabled_panic_monitoring,
                       !.pc = "types", !.buf = payload,
                                       !.report = report,
                                       !.current_time = now,
                                       !.lbeacon_uuid = Tok(payload, 1),
                                       !.lbeacon_timestamp_value =
                                           atoi(Tok(payload, 2)),
                                       !.toks = Drop(payload, 3),
                                       !.num_types = 2]
    /\ UNCHANGED otherVars
    /\ UNCHANGED <<poolVars, threadVars, dbVars>>

\* while(num_types --): object_type and object_number
IngestTypes ==
    /\ ing.pc = "types"
    /\ IF ing.num_types = 0
       THEN ing' = [ing EXCEPT !.num_types = -1, !.pc = "copy_get"]
       ELSE IF Tok(ing.toks, 2) = NULL
       THEN ing' = [ing EXCEPT !.num_types = @ - 1, !.toks = <<>>,
                               !.pc = "done", !.ret = E_API_PROTOCOL_FORMAT]
       ELSE ing' = [ing EXCEPT !.num_types = @ - 1,
                               !.numbers = atoi(Tok(ing.toks, 2)),
                               !.toks = Drop(ing.toks, 2),
                               !.pc = "records"]
    /\ UNCHANGED otherVars
    /\ UNCHANGED <<poolVars, threadVars, dbVars, csv_file, file_exists>>

\* while(numbers --): mac, initial, final, rssi and panic of one sub-record
IngestRecord ==
    /\ ing.pc = "records"
    /\ IF ing.numbers = 0
       THEN ing' = [ing EXCEPT !.numbers = -1, !.pc = "types"]
       ELSE ing' = [ing EXCEPT
                !.numbers = @ - 1,
                !.object_mac_address = Tok(ing.toks, 1),
                !.initial_timestamp_GMT = Tok(ing.toks, 2),
                !.final_timestamp_GMT = Tok(ing.toks, 3),
                !.rssi = Tok(ing.toks, 4),
                !.panic_button = Tok(ing.toks, 5),
                !.toks = Drop(ing.toks, 5),
                !.pc = IF Tok(ing.toks, 5) # NULL /\ atoi(Tok(ing.toks, 5)) = 1
                       THEN "panic_get" ELSE "write"]
    /\ UNCHANGED otherVars
    /\ UNCHANGED <<poolVars, threadVars, dbVars, csv_file, file_exists>>

\* the connection for the panic stamp; "continue" when there is none
IngestPanicGet ==
    /\ ing.pc = "panic_get"
    /\ IF GetSucceeds
       THEN /\ AcquireFirstFree(IngestThread)
            /\ ing' = [ing EXCEPT !.pc = "panic_exec"]
       ELSE /\ ing' = [ing EXCEPT !.pc = "records"]
            /\ UNCHANGED <<poolVars, threadVars>>
    /\ UNCHANGED otherVars
    /\ UNCHANGED <<dbVars, csv_file, file_exists>>

\* the rows sql_identify_panic updates: the summary rows of mac, when the
\* join of object_summary_table (as R) with object_table has a row whose
\* monitor_type has the panic bit
PanicRows(mac) ==
    IF \E r \in DOMAIN object_summary_table :
          /\ r \in DOMAIN object_table
          /\ BitAnd(object_table[r].monitor_type, MONITOR_PANIC) = MONITOR_PANIC
    THEN {m \in DOMAIN object_summary_table : m = mac}
    ELSE {}

IngestPanicExec(sql_ok) ==
    /\ ing.pc = "panic_exec"
    /\ IF sql_ok
       THEN object_summary_table' =
              [m \in DOMAIN object_summary_table |->
                 IF m \in PanicRows(ing.object_mac_address)
                 THEN [object_summary_table[m] EXCEPT
                          !.panic_violation_timestamp = now]
                 ELSE object_summary_table[m]]
       ELSE UNCHANGED object_summary_table
    /\ ing' = [ing EXCEPT !.pc = "panic_release",
                          !.ret_val = IF sql_ok THEN WORK_SUCCESSFULLY
                                      ELSE E_SQL_EXECUTE]
    /\ UNCHANGED otherVars
    /\ UNCHANGED <<poolVars, threadVars, now, object_table, tracking_table,
                   csv_file, file_exists>>

IngestPanicRelease ==
    /\ ing.pc = "panic_release"
    /\ ReleaseSerial(IngestThread)
    /\ ing' = [ing EXCEPT !.pc = "write"]
    /\ UNCHANGED otherVars
    /\ UNCHANGED <<dbVars, csv_file, file_exists>>

\* the CSV line of the current sub-record
CsvRow(g, battery) ==
    [mac |-> PrintS(g.object_mac_address), uuid |-> PrintS(g.lbeacon_uuid),
     rssi |-> PrintS(g.rssi), panic |-> PrintS(g.panic_button),
     battery |-> PrintS(battery),
     initial |-> FormatTime(atoi(g.initial_timestamp_GMT)),
     final |-> FormatTime(atoi(g.final_timestamp_GMT)),
     offset |-> g.current_time - g.lbeacon_timestamp_value]

\* battery_voltage, the two time conversions and fprintf. atoi of a NULL
\* timestamp token dereferences a null pointer: the process crashes.
IngestWrite ==
    /\ ing.pc = "write"
    /\ IF ing.initial_timestamp_GMT = NULL \/ ing.final_timestamp_GMT = NULL
       THEN /\ ing' = [ing EXCEPT !.toks = Drop(ing.toks, 1), !.pc = "crashed"]
            /\ UNCHANGED csv_file
       ELSE /\ csv_file' = Append(csv_file, CsvRow(ing, Tok(ing.toks, 1)))
            /\ ing' = [ing EXCEPT !.toks = Drop(ing.toks, 1), !.pc = "records"]
    /\ UNCHANGED otherVars
    /\ UNCHANGED <<poolVars, threadVars, dbVars, file_exists>>

\* fclose and the connection for the COPY
IngestCopyGet ==
    /\ ing.pc = "copy_get"
    /\ IF GetSucceeds
       THEN /\ AcquireFirstFree(IngestThread)
            /\ ing' = [ing EXCEPT !.pc = "copy_exec"]
       ELSE /\ ing' = [ing EXCEPT !.pc = "done", !.ret = E_SQL_OPEN_DATABASE]
            /\ UNCHANGED <<poolVars, threadVars>>
    /\ UNCHANGED otherVars
    /\ UNCHANGED <<dbVars, csv_file, file_exists>>

\* COPY tracking_table (...) FROM file DELIMITER ',' CSV: every line becomes
\* a row, or the statement fails as a whole
CopyAccepts(rows) ==
    \A k \in 1..Len(rows) :
        IsIntText(rows[k].rssi) /\ IsIntText(rows[k].panic)
            /\ IsIntText(rows[k].battery)

CopyRow(line) ==
    [object_mac_address |-> line.mac, lbeacon_uuid |-> line.uuid,
     rssi |-> atoi(line.rssi), panic_button |-> atoi(line.panic),
     battery_voltage |-> atoi(line.battery),
     initial_timestamp |-> ParseTimestamp(line.initial),
     final_timestamp |-> ParseTimestamp(line.final),
     server_time_offset |-> line.offset]

IngestCopyExec(sql_ok) ==
    /\ ing.pc = "copy_exec"
    /\ LET ok == sql_ok /\ CopyAccepts(csv_file)
       IN /\ tracking_table' =
                IF ok THEN tracking_table \o
                           [k \in 1..Len(csv_file) |-> CopyRow(csv_file[k])]
                ELSE tracking_table
          /\ ing' = [ing EXCEPT !.pc = "copy_release",
                                !.ret_val = IF ok THEN WORK_SUCCESSFULLY
                                            ELSE E_SQL_EXECUTE]
    /\ UNCHANGED otherVars
    /\ UNCHANGED <<poolVars, threadVars, now, object_table,
                   object_summary_table, csv_file, file_exists>>

\* release, remove(filename) and the return value
IngestCopyRelease ==
    /\ ing.pc = "copy_release"
    /\ ReleaseSerial(IngestThread)
    /\ file_exists' = FALSE
    /\ ing' = [ing EXCEPT !.pc = "done",
                          !.ret = IF ing.ret_val # WORK_SUCCESSFULLY
                                  THEN E_SQL_EXECUTE ELSE WORK_SUCCESSFULLY]
    /\ UNCHANGED otherVars
    /\ UNCHANGED <<dbVars, csv_file>>

\* ------------------------------------------------------------------------
\* The violation pipeline: the tables and the SQL of its statements
\* ------------------------------------------------------------------------
MonitorTypes ==
    {MONITOR_GEO_FENCE, MONITOR_PANIC, MONITOR_MOVEMENT, MONITOR_LOCATION}

\* table_name[] of SQL_reload_monitor_config
ConfigTables ==
    <<"geo_fence_config", "location_not_stay_room_config",
      "location_long_stay_in_danger_config", "movement_config">>

\* a = b of SQL on text columns: never true when a side is NULL
SqlEq(a, b) == a # NULL /\ b # NULL /\ a = b

\* CURRENT_TIME + interval 'h hours', in seconds of the day
LocalTime(h) == (now + h * 3600) % 86400

\* a CASE with the closed window [start_time, end_time]
IsActiveClosed(row, t) ==
    IF \/ /\ row.enable = 1
          /\ row.start_time <= row.end_time
          /\ t >= row.start_time
          /\ t <= row.end_time
       \/ /\ row.enable = 1
          /\ row.start_time > row.end_time
          /\ \/ (t >= row.start_time /\ t <= 86399)
             \/ (t >= 0 /\ t <= row.end_time)
    THEN 1 ELSE 0

\* the CASE of sql_update_template: the new is_active of a config row
IsActive(row, t) ==
    IF \/ /\ row.enable = 1
          /\ row.start_time < row.end_time
          /\ t >= row.start_time
          /\ t < row.end_time
       \/ /\ row.enable = 1
          /\ row.start_time > row.end_time
          /\ \/ (t >= row.start_time /\ t <= 86399)
             \/ (t >= 0 /\ t < row.end_time)
    THEN 1 ELSE 0

\* the config tables after the first k statements of the loop have run
ReloadedConfig(k, h) ==
    [name \in DOMAIN monitor_config |->
        IF \E idx \in 1..k : ConfigTables[idx] = name
        THEN [monitor_config[name] EXCEPT
                 !.is_active = IsActive(monitor_config[name], LocalTime(h))]
        ELSE monitor_config[name]]

\* UPDATE object_summary_table SET <column> = NOW() on the rows of macs
StampRows(macs, column) ==
    [m \in DOMAIN object_summary_table |->
        IF m \in macs
        THEN [object_summary_table[m] EXCEPT ![column] = now]
        ELSE object_summary_table[m]]

\* the join every identification statement starts from: the summary row, its
\* object_table row and the config row of the object's area
JoinsConfig(m, name) ==
    /\ m \in DOMAIN object_table
    /\ object_table[m].area_id = monitor_config[name].area_id
    /\ monitor_config[name].is_active = 1

HasBit(m, bit) == BitAnd(object_table[m].monitor_type, bit) = bit

\* location_information of SQL_identify_location_not_stay_room
NotStayRoomRows ==
    {m \in DOMAIN object_summary_table :
        /\ JoinsConfig(m, "location_not_stay_room_config")
        /\ object_summary_table[m].uuid \in DOMAIN lbeacon_table
        /\ HasBit(m, MONITOR_LOCATION)
        /\ lbeacon_table[object_summary_table[m].uuid].room
              # object_table[m].room}

\* EXTRACT(MIN FROM interval): the minutes field of the interval
ExtractMin(seconds) == (seconds \div 60) % 60

\* location_information of SQL_identify_location_long_stay_in_danger
LongStayRows ==
    {m \in DOMAIN object_summary_table :
        /\ JoinsConfig(m, "location_long_stay_in_danger_config")
        /\ object_summary_table[m].uuid \in DOMAIN lbeacon_table
        /\ HasBit(m, MONITOR_LOCATION)
        /\ lbeacon_table[object_summary_table[m].uuid].danger_area = 1
        /\ object_summary_table[m].last_seen_timestamp # NULLTS
        /\ object_summary_table[m].first_seen_timestamp # NULLTS
        /\ ExtractMin(object_summary_table[m].last_seen_timestamp
                        - object_summary_table[m].first_seen_timestamp)
              > monitor_config["location_long_stay_in_danger_config"].stay_duration}

\* the rows of sql_select_template in SQL_identify_last_movement_status
MovementCandidates ==
    {m \in DOMAIN object_summary_table :
        /\ JoinsConfig(m, "movement_config")
        /\ HasBit(m, MONITOR_MOVEMENT)}

\* TIME_BUCKET('k minutes', ts)
TimeBucket(k, ts) == ts - (ts % (k * 60))

RECURSIVE SumRssi(_)
SumRssi(ks) ==
    IF ks = {} THEN 0
    ELSE LET k == CHOOSE x \in ks : TRUE
         IN tracking_table[k].rssi + SumRssi(ks \ {k})

\* sql_select_activity_template: the time slots whose average rssi differs
\* from the average of the slot before by more than rssi_delta
ActivitySlots(mac, uuid, each_time_slot_in_min, time_interval_in_min, rssi_delta) ==
    LET recent == {k \in 1..Len(tracking_table) :
                      /\ tracking_table[k].final_timestamp
                            > now - time_interval_in_min * 60
                      /\ tracking_table[k].lbeacon_uuid = uuid
                      /\ tracking_table[k].object_mac_address = mac}
        SlotOf(k) == TimeBucket(each_time_slot_in_min,
                                tracking_table[k].final_timestamp)
        slots == {SlotOf(k) : k \in recent}
        In(s) == {k \in recent : SlotOf(k) = s}
        Before(s) == {p \in slots : p < s}
        Lag(s) == CHOOSE p \in Before(s) : \A q \in Before(s) : q <= p
        \* avg(s) - avg(Lag(s)), times the two counts
        ScaledDiff(s) == SumRssi(In(s)) * Cardinality(In(Lag(s)))
                            - SumRssi(In(Lag(s))) * Cardinality(In(s))
        Scale(s) == Cardinality(In(s)) * Cardinality(In(Lag(s)))
    IN {s \in slots :
           /\ Before(s) # {}
           /\ \/ ScaledDiff(s) > rssi_delta * Scale(s)
              \/ ScaledDiff(s) < (0 - rssi_delta) * Scale(s)}

\* a loop that does not skip the rows without uuid
NoMovementRowsAnyUuid(each_time_slot_in_min, time_interval_in_min, rssi_delta) ==
    {m \in MovementCandidates :
        ActivitySlots(m, object_summary_table[m].uuid,
                      each_time_slot_in_min, time_interval_in_min,
                      rssi_delta) = {}}

\* the rows the loop of SQL_identify_last_movement_status stamps
NoMovementRows(each_time_slot_in_min, time_interval_in_min, rssi_delta) ==
    {m \in MovementCandidates :
        /\ object_summary_table[m].uuid # NULL
        /\ ActivitySlots(m, object_summary_table[m].uuid,
                         each_time_slot_in_min, time_interval_in_min,
                         rssi_delta) = {}}

\* the switch of SQL_collect_violation_events
ViolationColumn(monitor_type) ==
    CASE monitor_type = MONITOR_GEO_FENCE -> "geofence_violation_timestamp"
      [] monitor_type = MONITOR_PANIC -> "panic_violation_timestamp"
      [] monitor_type = MONITOR_MOVEMENT -> "movement_violation_timestamp"
      [] monitor_type = MONITOR_LOCATION -> "location_violation_timestamp"
      [] OTHER -> NULL

\* a sub-query that compares the difference with the granularity the
\* wrong way round
DedupMatchesOutsideWindow(n, monitor_type, ts, granularity) ==
    /\ n.monitor_type = monitor_type
    /\ ts - n.violation_timestamp > granularity

\* the WHERE of the NOT EXISTS sub-query, for one notification row n and the
\* outer row's violation timestamp ts. mac_address and uuid are unqualified
\* inside the sub-query: both sides name the column of notification_table.
DedupMatches(n, monitor_type, ts, granularity) ==
    /\ n.monitor_type = monitor_type
    /\ SqlEq(n.mac_address, n.mac_address)
    /\ SqlEq(n.uuid, n.uuid)
    /\ ts - n.violation_timestamp < granularity

\* an INSERT ... SELECT without the NOT EXISTS condition
CollectRowsWithoutDedup(monitor_type, time_interval_in_sec, granularity) ==
    {m \in DOMAIN object_summary_table :
        /\ object_summary_table[m][ViolationColumn(monitor_type)] # NULLTS
        /\ object_summary_table[m][ViolationColumn(monitor_type)]
              >= now - time_interval_in_sec}

\* the rows of object_summary_table the INSERT ... SELECT selects
CollectRows(monitor_type, time_interval_in_sec, granularity) ==
    {m \in DOMAIN object_summary_table :
        LET ts == object_summary_table[m][ViolationColumn(monitor_type)]
        IN /\ ts # NULLTS
           /\ ts >= now - time_interval_in_sec
           /\ ~ \E k \in 1..Len(notification_table) :
                   DedupMatches(notification_table[k], monitor_type, ts,
                                granularity)}

\* the notification rows appended for the macs of ord, in that order
\* the serial id column: above every id the table holds
LastId ==
    IF notification_table = <<>> THEN 0
    ELSE CHOOSE v \in {notification_table[k].id : k \in DOMAIN notification_table} :
            \A k \in DOMAIN notification_table : v >= notification_table[k].id

NewNotifications(ord, monitor_type) ==
    [k \in 1..Len(ord) |->
        [id |-> LastId + k,
         monitor_type |-> monitor_type,
         mac_address |-> ord[k],
         uuid |-> object_summary_table[ord[k]].uuid,
         violation_timestamp |->
             object_summary_table[ord[k]][ViolationColumn(monitor_type)],
         processed |-> 0]]

\* the orders in which a statement can visit a set of rows
Orders(S) ==
    {ord \in [1..Cardinality(S) -> S] :
        \A i, j \in 1..Cardinality(S) : i # j => ord[i] # ord[j]}

\* ------------------------------------------------------------------------
\* The periodic violation job: reload config, wrong room, long stay,
\* movement, then one collect per monitor type
\* ------------------------------------------------------------------------
CollectOrder ==
    <<MONITOR_GEO_FENCE, MONITOR_PANIC, MONITOR_MOVEMENT, MONITOR_LOCATION>>
LastStep == 4 + Len(CollectOrder)

NoConfig == [t0 |-> 0]

HIdle(cfg) ==
    [step |-> 1, runs |-> 0, cfg |-> cfg, sightings |-> 0, failures |-> 0,
     ok |-> TRUE, quiet |-> TRUE, start |-> NULLTS,
     hist |-> <<>>]

\* the job's record after the step that returned ret and left
\* notification_table as table
HStep(ret, table) ==
    LET begun == IF hrun.step = 1 THEN now ELSE hrun.start
        ok == hrun.ok /\ ret = WORK_SUCCESSFULLY
        failed == IF ret = WORK_SUCCESSFULLY THEN 0 ELSE 1
    IN /\ hrun.failures + failed <= MaxFailures
       /\ hrun' =
         IF hrun.step = LastStep
         THEN [hrun EXCEPT
                 !.failures = @ + failed,
                 !.step = 1, !.runs = @ + 1, !.ok = TRUE, !.quiet = TRUE,
                 !.start = NULLTS,
                 !.hist = Append(@, [ok |-> ok, quiet |-> hrun.quiet,
                                     start |-> begun, end |-> now,
                                     len |-> Len(table)])]
         ELSE [hrun EXCEPT
                 !.failures = @ + failed,
                 !.step = @ + 1, !.ok = ok, !.start = begun]

SQL_reload_monitor_config(k) ==
    /\ hrun.step = 1
    /\ hrun.runs < MaxRuns
    /\ IF ~GetSucceeds
       THEN /\ UNCHANGED monitor_config
            /\ HStep(E_SQL_OPEN_DATABASE, notification_table)
       ELSE /\ monitor_config' = ReloadedConfig(k, hrun.cfg.offset)
            /\ HStep(IF k = Len(ConfigTables) THEN WORK_SUCCESSFULLY
                     ELSE E_SQL_EXECUTE, notification_table)
    /\ UNCHANGED <<poolVars, threadVars, dbVars, ingestVars, lbeacon_table,
                   notification_table, drain, recv, summ, reg, maint>>

\* an identification statement: it stamps column on rows, or fails
Identify(rows, column, sql_ok) ==
    /\ IF ~GetSucceeds
       THEN /\ UNCHANGED object_summary_table
            /\ HStep(E_SQL_OPEN_DATABASE, notification_table)
       ELSE IF ~sql_ok
       THEN /\ UNCHANGED object_summary_table
            /\ HStep(E_SQL_EXECUTE, notification_table)
       ELSE /\ object_summary_table' = StampRows(rows, column)
            /\ HStep(WORK_SUCCESSFULLY, notification_table)
    /\ UNCHANGED <<poolVars, threadVars, now, object_table, tracking_table,
                   ingestVars, lbeacon_table, monitor_config,
                   notification_table, drain, recv, summ, reg, maint>>

SQL_identify_location_not_stay_room(sql_ok) ==
    /\ hrun.step = 2
    /\ Identify(NotStayRoomRows, "location_violation_timestamp", sql_ok)

SQL_identify_location_long_stay_in_danger(sql_ok) ==
    /\ hrun.step = 3
    /\ Identify(LongStayRows, "location_violation_timestamp", sql_ok)

\* the rows of sql_select_template come ORDER BY mac_address ASC
MacsAscending == <<"m1", "m2">>

\* the loop over the rows. failed_row = 0: every statement succeeds; else a
\* statement fails at that row (at row 1 this is also the SELECT of the rows
\* itself), with the rows before it stamped already
SQL_identify_last_movement_status(time_interval_in_min, each_time_slot_in_min, rssi_delta, failed_row) ==
    /\ hrun.step = 4
    /\ LET rows == NoMovementRows(each_time_slot_in_min, time_interval_in_min,
                                  rssi_delta)
           before == {MacsAscending[i] : i \in 1..(failed_row - 1)}
       IN IF ~GetSucceeds
          THEN /\ UNCHANGED object_summary_table
               /\ HStep(E_SQL_OPEN_DATABASE, notification_table)
          ELSE IF failed_row = 0
          THEN /\ object_summary_table' =
                     StampRows(rows, "movement_violation_timestamp")
               /\ HStep(WORK_SUCCESSFULLY, notification_table)
          ELSE /\ \/ failed_row = 1
                  \/ /\ MacsAscending[failed_row] \in MovementCandidates
                     /\ object_summary_table[MacsAscending[failed_row]].uuid
                           # NULL
               /\ object_summary_table' =
                     StampRows(rows \cap before, "movement_violation_timestamp")
               /\ HStep(E_SQL_EXECUTE, notification_table)
    /\ UNCHANGED <<poolVars, threadVars, now, object_table, tracking_table,
                   ingestVars, lbeacon_table, monitor_config,
                   notification_table, drain, recv, summ, reg, maint>>

SQL_collect_violation_events(monitor_type, time_interval_in_sec, granularity, sql_ok) ==
    /\ hrun.step > 4
    /\ monitor_type = CollectOrder[hrun.step - 4]
    /\ IF ViolationColumn(monitor_type) = NULL
       THEN /\ UNCHANGED notification_table
            /\ HStep(E_INPUT_PARAMETER, notification_table)
       ELSE IF ~GetSucceeds
       THEN /\ UNCHANGED notification_table
            /\ HStep(E_SQL_OPEN_DATABASE, notification_table)
       ELSE IF ~sql_ok
       THEN /\ UNCHANGED notification_table
            /\ HStep(E_SQL_EXECUTE, notification_table)
       ELSE \E ord \in Orders(CollectRows(monitor_type, time_interval_in_sec,
                                          granularity)) :
              /\ notification_table' =
                   notification_table \o NewNotifications(ord, monitor_type)
              /\ HStep(WORK_SUCCESSFULLY, notification_table')
    /\ UNCHANGED <<poolVars, threadVars, dbVars, ingestVars, lbeacon_table,
                   monitor_config, drain, recv, summ, reg, maint>>

\* ------------------------------------------------------------------------
\* What reaches the pipeline from outside: sightings and the clock
\* ------------------------------------------------------------------------
Sighted == hrun' = [hrun EXCEPT !.sightings = @ + 1, !.quiet = FALSE]

\* a tracking record with panic_button = 1 for mac, as the ingest stamps it
PanicSighting(mac) ==
    /\ hrun.sightings < MaxSightings
    /\ GetSucceeds
    /\ object_summary_table' = StampRows(PanicRows(mac),
                                         "panic_violation_timestamp")
    /\ Sighted
    /\ UNCHANGED <<poolVars, threadVars, now, object_table, tracking_table,
                   ingestVars, lbeacon_table, monitor_config,
                   notification_table, drain, recv, summ, reg, maint>>

SQL_identify_geofence_violation(mac_address, sql_ok) ==
    /\ hrun.sightings < MaxSightings
    /\ object_summary_table' =
          IF GetSucceeds /\ sql_ok
          THEN StampRows({m \in DOMAIN object_summary_table : m = mac_address},
                         "geofence_violation_timestamp")
          ELSE object_summary_table
    /\ Sighted
    /\ UNCHANGED <<poolVars, threadVars, now, object_table, tracking_table,
                   ingestVars, lbeacon_table, monitor_config,
                   notification_table, drain, recv, summ, reg, maint>>

Tick ==
    /\ now < hrun.cfg.t0 + MaxTime
    /\ now' = now + 1
    /\ UNCHANGED <<poolVars, threadVars, object_table, object_summary_table,
                   tracking_table, ingestVars, otherVars>>

\* ------------------------------------------------------------------------
\* SQL_get_and_update_violation_events
\* ------------------------------------------------------------------------
DrainThread == IngestThread

\* PQgetvalue: the text of a column, empty for NULL
TwoDigits(n) == IF n < 10 THEN "0" \o ToString(n) ELSE ToString(n)
TimestampText(t) ==
    ToString(t \div 86400) \o " " \o TwoDigits((t % 86400) \div 3600) \o ":"
        \o TwoDigits((t % 3600) \div 60) \o ":" \o TwoDigits(t % 60)
PQgetvalue(v) == IF v = NULL THEN "" ELSE v

\* sprintf(one_record, "%s,%s,%s,%s,%s;", ...)
OneRecord(n) ==
    ToString(n.id) \o "," \o ToString(n.monitor_type) \o ","
        \o PQgetvalue(n.mac_address) \o "," \o PQgetvalue(n.uuid) \o ","
        \o TimestampText(n.violation_timestamp) \o ";"

\* SELECT ... WHERE processed != 1 ORDER BY id ASC
Unprocessed ==
    SelectSeq(notification_table, LAMBDA n : n.processed # 1)

DrainIdle ==
    [pc |-> "idle", res |-> <<>>, i |-> 0, buf |-> "", buf_len |-> 0,
     ret |-> NONE, calls |-> 0, appended |-> <<>>, unfit |-> {},
     delivered |-> <<>>]

\* the connection and the SELECT
DrainCall(buf_len, sql_ok) ==
    /\ drain.pc \in {"idle", "done"}
    /\ drain.calls < MaxCalls
    /\ LET fresh == [drain EXCEPT !.calls = @ + 1, !.buf = "",
                                  !.buf_len = buf_len, !.res = <<>>, !.i = 0,
                                  !.appended = <<>>, !.unfit = {}]
       IN IF ~GetSucceeds
          THEN /\ drain' = [fresh EXCEPT !.pc = "done",
                                         !.ret = E_SQL_OPEN_DATABASE]
               /\ UNCHANGED <<poolVars, threadVars>>
          ELSE IF ~sql_ok
          THEN /\ drain' = [fresh EXCEPT !.pc = "done", !.ret = E_SQL_EXECUTE]
               /\ UNCHANGED <<poolVars, threadVars>>
          ELSE /\ AcquireFirstFree(DrainThread)
               /\ drain' = [fresh EXCEPT !.pc = "rows", !.res = Unprocessed]
    /\ UNCHANGED <<dbVars, ingestVars, hVars, recv, summ, reg, maint>>

\* the update, had it cleared the flag of the other rows
MarkProcessedAlone(table, id) ==
    [k \in 1..Len(table) |->
        [table[k] EXCEPT !.processed = IF table[k].id = id THEN 1 ELSE 0]]

\* UPDATE notification_table SET processed = 1 WHERE id = %d
MarkProcessed(table, id) ==
    [k \in 1..Len(table) |->
        IF table[k].id = id THEN [table[k] EXCEPT !.processed = 1]
        ELSE table[k]]

\* one pass of for(i = 0; i < total_rows; i++)
DrainRow(sql_ok) ==
    /\ drain.pc = "rows"
    /\ drain.i < Len(drain.res)
    /\ LET n == drain.res[drain.i + 1]
           one_record == OneRecord(n)
       IN IF drain.buf_len > Len(drain.buf) + Len(one_record)
          THEN /\ drain' = [drain EXCEPT
                              !.i = @ + 1,
                              !.buf = @ \o one_record,
                              !.appended = Append(@, n.id),
                              !.delivered = Append(@, n.id)]
               /\ notification_table' =
                    IF sql_ok THEN MarkProcessed(notification_table, n.id)
                    ELSE notification_table
          ELSE /\ drain' = [drain EXCEPT !.i = @ + 1,
                                         !.unfit = @ \cup {n.id}]
               /\ UNCHANGED notification_table
    /\ UNCHANGED <<poolVars, threadVars, dbVars, ingestVars, lbeacon_table,
                   monitor_config, hrun, recv, summ, reg, maint>>

\* PQclear, the release and return WORK_SUCCESSFULLY
DrainReturn ==
    /\ drain.pc = "rows"
    /\ drain.i >= Len(drain.res)
    /\ ReleaseSerial(DrainThread)
    /\ drain' = [drain EXCEPT !.pc = "done", !.ret = WORK_SUCCESSFULLY]
    /\ UNCHANGED <<dbVars, ingestVars, hVars, recv, summ, reg, maint>>

\* ------------------------------------------------------------------------
\* SQL_delete_old_data
\* ------------------------------------------------------------------------
SecondsOfHours(hours) == hours * 3600

\* DELETE FROM notification_table
\*   WHERE violation_timestamp < NOW() - INTERVAL '%d HOURS'
DeleteOld(table, retention_hours) ==
    SelectSeq(table, LAMBDA n :
        ~(n.violation_timestamp < now - SecondsOfHours(retention_hours)))

\* SELECT drop_chunks(interval '%d HOURS', 'tracking_table'): the chunks
\* whose rows all ended before the interval; a chunk is one row here
DropChunks(table, retention_hours) ==
    SelectSeq(table, LAMBDA r :
        ~(r.final_timestamp < now - SecondsOfHours(retention_hours)))

\* no retention or vacuum call has returned yet
MaintIdle == [op |-> "none", ret |-> WORK_SUCCESSFULLY, executed |-> {}]

\* Both loops. A table for which no connection is got is passed over; a
\* statement that fails ends the call with E_SQL_EXECUTE, and the tables
\* after it are not reached.
SQL_delete_old_data(retention_hours, sql_ok, tsdb_ok) ==
    /\ notification_table' =
          IF GetSucceeds /\ sql_ok
          THEN DeleteOld(notification_table, retention_hours)
          ELSE notification_table
    /\ tracking_table' =
          IF GetSucceeds /\ sql_ok /\ tsdb_ok
          THEN DropChunks(tracking_table, retention_hours)
          ELSE tracking_table
    /\ maint' = [op |-> "SQL_delete_old_data",
                 ret |-> IF GetSucceeds /\ ~(sql_ok /\ tsdb_ok)
                         THEN E_SQL_EXECUTE ELSE WORK_SUCCESSFULLY,
                 executed |-> IF ~(GetSucceeds /\ sql_ok) THEN {}
                              ELSE IF tsdb_ok
                                   THEN {"notification_table", "tracking_table"}
                                   ELSE {"notification_table"}]
    /\ UNCHANGED <<poolVars, threadVars, now, object_table,
                   object_summary_table, ingestVars, lbeacon_table,
                   monitor_config, hrun, drain, recv, summ, reg>>

\* ------------------------------------------------------------------------
\* SQL_vacuum_database
\* ------------------------------------------------------------------------
table_name == <<"tracking_table", "lbeacon_table", "gateway_table", "object_table", "notification_table">>

\* One VACUUM per table, in the order of table_name. fail is the index of
\* the table whose VACUUM fails (0: none). A table for which no connection
\* is got is passed over; the first failure ends the call with
\* E_SQL_EXECUTE. VACUUM leaves the rows of the tables as they are.
SQL_vacuum_database(fail) ==
    /\ maint' = [op |-> "SQL_vacuum_database",
                 ret |-> IF GetSucceeds /\ fail # 0
                         THEN E_SQL_EXECUTE ELSE WORK_SUCCESSFULLY,
                 executed |-> IF ~GetSucceeds THEN {}
                              ELSE {table_name[idx] :
                                      idx \in {i \in DOMAIN table_name :
                                                 fail = 0 \/ i < fail}}]
    /\ UNCHANGED <<poolVars, threadVars, dbVars, ingestVars, hVars, drain,
                   recv, summ, reg>>

\* ------------------------------------------------------------------------
\* SQL_update_gateway_registration_status,
\* SQL_update_lbeacon_registration_status
\* ------------------------------------------------------------------------
\* hist: for every call that has returned, what was applied and the two
\* tables as the call left them
RegIdle == [gateway_table |-> <<>>, calls |-> 0, crashed |-> FALSE, hist |-> <<>>]

S_NORMAL_STATUS == 0
INDEX_OF_COORDINATE_X_IN_UUID == 12
INDEX_OF_COORDINATE_Y_IN_UUID == 24
LENGTH_OF_COORDINATE_IN_UUID == 8

\* a uuid is the sequence of its characters
DigitOf(c) ==
    CASE c = "0" -> 0 [] c = "1" -> 1 [] c = "2" -> 2 [] c = "3" -> 3
      [] c = "4" -> 4 [] c = "5" -> 5 [] c = "6" -> 6 [] c = "7" -> 7
      [] c = "8" -> 8 [] c = "9" -> 9 [] OTHER -> 0 - 1

\* the copy, had it started one character later
strncpy_one_later(str, index, length) ==
    IF Len(str) <= index + 1 THEN <<>>
    ELSE SubSeq(str, index + 2,
                IF Len(str) < index + 1 + length THEN Len(str)
                ELSE index + 1 + length)

\* strncpy(coordinate, &str_uuid[index], length) into a zeroed buffer: the
\* characters from index on, up to length of them or the end of the string
strncpy(str, index, length) ==
    IF Len(str) <= index THEN <<>>
    ELSE SubSeq(str, index + 1,
                IF Len(str) < index + length THEN Len(str) ELSE index + length)

\* the value of the decimal digits a string begins with
RECURSIVE LeadingDigits(_, _)
LeadingDigits(str, acc) ==
    IF str = <<>> \/ DigitOf(Head(str)) < 0 THEN acc
    ELSE LeadingDigits(Tail(str), 10 * acc + DigitOf(Head(str)))

\* atoi on characters: white space, a sign, then the digits
RECURSIVE atoi_chars(_)
atoi_chars(str) ==
    IF str = <<>> THEN 0
    ELSE IF Head(str) = " " THEN atoi_chars(Tail(str))
    ELSE IF Head(str) = "-" THEN 0 - LeadingDigits(Tail(str), 0)
    ELSE IF Head(str) = "+" THEN LeadingDigits(Tail(str), 0)
    ELSE LeadingDigits(str, 0)

\* the upsert, had DO UPDATE SET named registered_timestamp as well
GatewayUpsertRestamp(table, ip_address) ==
    (ip_address :>
        [ip_address |-> ip_address, health_status |-> S_NORMAL_STATUS,
         registered_timestamp |-> now, last_report_timestamp |-> now]) @@ table

\* INSERT INTO gateway_table ... ON CONFLICT (ip_address) DO UPDATE SET ...
GatewayUpsert(table, ip_address) ==
    IF ip_address \in DOMAIN table
    THEN [table EXCEPT ![ip_address].health_status = S_NORMAL_STATUS,
                       ![ip_address].last_report_timestamp = now]
    ELSE table @@ (ip_address :>
            [ip_address |-> ip_address, health_status |-> S_NORMAL_STATUS,
             registered_timestamp |-> now, last_report_timestamp |-> now])

\* INSERT INTO lbeacon_table ... ON CONFLICT (uuid) DO UPDATE SET ...
LbeaconUpsert(table, uuid, lbeacon_ip, gateway_ip_address, registered_timestamp_GMT) ==
    LET int_coordinate_x ==
            atoi_chars(strncpy(uuid, INDEX_OF_COORDINATE_X_IN_UUID,
                               LENGTH_OF_COORDINATE_IN_UUID))
        int_coordinate_y ==
            atoi_chars(strncpy(uuid, INDEX_OF_COORDINATE_Y_IN_UUID,
                               LENGTH_OF_COORDINATE_IN_UUID))
    IN IF uuid \in DOMAIN table
       THEN [table EXCEPT ![uuid].ip_address = lbeacon_ip,
                          ![uuid].health_status = S_NORMAL_STATUS,
                          ![uuid].gateway_ip_address = gateway_ip_address,
                          ![uuid].last_report_timestamp = now,
                          ![uuid].coordinate_x = int_coordinate_x,
                          ![uuid].coordinate_y = int_coordinate_y]
       ELSE table @@ (uuid :>
               [uuid |-> uuid, ip_address |-> lbeacon_ip,
                health_status |-> S_NORMAL_STATUS,
                gateway_ip_address |-> gateway_ip_address,
                registered_timestamp |-> atoi(registered_timestamp_GMT),
                last_report_timestamp |-> now,
                coordinate_x |-> int_coordinate_x,
                coordinate_y |-> int_coordinate_y])

\* the loop, had it passed over a record whose statement fails
RECURSIVE GatewayLoopPastFailure(_, _, _, _, _)
GatewayLoopPastFailure(table, toks, numbers, fail, survives) ==
    IF numbers = 0 THEN [table |-> table, ret |-> WORK_SUCCESSFULLY]
    ELSE IF toks = <<>> /\ ~survives THEN [table |-> table, ret |-> "crashed"]
    ELSE GatewayLoopPastFailure(
             IF fail = 1 THEN table
             ELSE GatewayUpsert(table, IF toks = <<>> THEN "" ELSE Head(toks)),
             Drop(toks, 1), numbers - 1,
             IF fail = 0 THEN 0 ELSE fail - 1, survives)

\* while(numbers--) of the gateway registration over the tokens left. fail: 0,
\* or which of the statements still to run fails. A token that is missing is
\* a NULL pointer given to strlen: the process dies, or (survives) runs on
\* with an empty string.
RECURSIVE GatewayLoop(_, _, _, _, _)
GatewayLoop(table, toks, numbers, fail, survives) ==
    IF numbers = 0 THEN [table |-> table, ret |-> WORK_SUCCESSFULLY]
    ELSE IF toks = <<>> /\ ~survives THEN [table |-> table, ret |-> "crashed"]
    ELSE IF fail = 1 THEN [table |-> table, ret |-> E_SQL_EXECUTE]
    ELSE GatewayLoop(GatewayUpsert(table, IF toks = <<>> THEN "" ELSE Head(toks)),
                     Drop(toks, 1), numbers - 1,
                     IF fail = 0 THEN 0 ELSE fail - 1, survives)

\* while(numbers--) of the lbeacon registration: uuid, registered timestamp
\* and ip of each beacon. A missing uuid is a NULL pointer given to strcpy,
\* a missing timestamp or ip one given to strlen.
RECURSIVE LbeaconLoop(_, _, _, _, _, _)
LbeaconLoop(table, toks, numbers, gateway_ip_address, fail, survives) ==
    IF numbers = 0 THEN [table |-> table, ret |-> WORK_SUCCESSFULLY]
    ELSE IF Len(toks) < 3 /\ ~survives THEN [table |-> table, ret |-> "crashed"]
    ELSE IF fail = 1 \/ Len(toks) < 3
    THEN [table |-> table, ret |-> E_SQL_EXECUTE]
    ELSE LbeaconLoop(LbeaconUpsert(table, toks[1], toks[3],
                                   gateway_ip_address, toks[2]),
                     Drop(toks, 3), numbers - 1, gateway_ip_address,
                     IF fail = 0 THEN 0 ELSE fail - 1, survives)

\* what a registration call returns and leaves, before the loop and in it
Registration(op, buf, gateway_ip_address, fail, survives) ==
    LET numbers_str == Tok(buf, 1)
        numbers == atoi(numbers_str)
        same == [gateway_table |-> reg.gateway_table,
                 lbeacon_table |-> lbeacon_table]
    IN IF numbers_str = NULL THEN [ret |-> E_API_PROTOCOL_FORMAT] @@ same
       ELSE IF numbers <= 0 THEN [ret |-> E_SQL_PARSE] @@ same
       ELSE IF ~GetSucceeds THEN [ret |-> E_SQL_OPEN_DATABASE] @@ same
       ELSE IF op = "gateway"
       THEN LET r == GatewayLoop(reg.gateway_table, Drop(buf, 1), numbers,
                                 fail, survives)
            IN [ret |-> r.ret, gateway_table |-> r.table,
                lbeacon_table |-> lbeacon_table]
       ELSE LET r == LbeaconLoop(lbeacon_table, Drop(buf, 2), numbers,
                                 gateway_ip_address, fail, survives)
            IN [ret |-> r.ret, gateway_table |-> reg.gateway_table,
                lbeacon_table |-> r.table]

RegistrationCall(op, buf, gateway_ip_address, fail, survives) ==
    /\ reg.calls < MaxRegistrations
    /\ ~reg.crashed
    /\ LET r == Registration(op, buf, gateway_ip_address, fail, survives)
       IN /\ lbeacon_table' = r.lbeacon_table
          /\ reg' = [gateway_table |-> r.gateway_table,
                     calls |-> reg.calls + 1,
                     crashed |-> r.ret = "crashed",
                     hist |-> Append(reg.hist,
                                [op |-> op, buf |-> buf,
                                 gateway_ip_address |-> gateway_ip_address,
                                 ret |-> r.ret, at |-> now,
                                 gateway_table |-> r.gateway_table,
                                 lbeacon_table |-> r.lbeacon_table])]
    /\ UNCHANGED <<poolVars, threadVars, dbVars, ingestVars, monitor_config,
                   notification_table, hrun, drain, recv, summ, maint>>

SQL_update_gateway_registration_status(buf, fail, survives) ==
    RegistrationCall("gateway", buf, NULL, fail, survives)

SQL_update_lbeacon_registration_status(buf, gateway_ip_address, fail, survives) ==
    RegistrationCall("lbeacon", buf, gateway_ip_address, fail, survives)

\* ------------------------------------------------------------------------
\* SQL_summarize_object_location
\* ------------------------------------------------------------------------
\* stable: the rows the stable-tag UPDATE of the running pass has updated;
\* moved: for the rows its moving-tag UPDATE has updated, what the CASE read:
\* uuid and first_seen_timestamp as they were, and the initial_timestamp of
\* location_information
\* reset: what SQL_execute returned for sql_reset_state_template in the
\* pass in progress; located: the objects that had a group passing the
\* HAVING when its stable-tag UPDATE ran
SummIdle ==
    [pc |-> "idle", ret_val |-> WORK_SUCCESSFULLY, ret |-> NONE, calls |-> 0, args |-> NoConfig,
     stable |-> {}, moved |-> <<>>, reset |-> NONE, located |-> {}]

NULLRSSI == 1         \* a NULL rssi column
NULLCOORD == -1       \* a NULL base_x or base_y column

\* the rows of rssi_weight_table
rssi_weight_table ==
    {[bottom_rssi |-> 0 - 60, upper_rssi |-> 0, weight |-> 3],
     [bottom_rssi |-> 0 - 100, upper_rssi |-> 0 - 60, weight |-> 1]}

\* final_timestamp > NOW() - interval 'W seconds' AND final_timestamp >=
\* NOW() - (server_time_offset || 'seconds')::INTERVAL - INTERVAL 'T seconds'
InRecentWindow(r) ==
    /\ r.final_timestamp > now - summ.args.database_pre_filter_time_window_in_sec
    /\ r.final_timestamp >=
          now - r.server_time_offset - summ.args.time_interval_in_sec

\* the same with final_timestamp >= NOW() - INTERVAL 'W seconds'
InLocationWindow(r) ==
    /\ r.final_timestamp >= now - summ.args.database_pre_filter_time_window_in_sec
    /\ r.final_timestamp >=
          now - r.server_time_offset - summ.args.time_interval_in_sec

\* GROUP BY object_mac_address, lbeacon_uuid: the rows of one group
RecentGroup(mac, uuid) ==
    {k \in 1..Len(tracking_table) :
        /\ tracking_table[k].object_mac_address = mac
        /\ tracking_table[k].lbeacon_uuid = uuid
        /\ InRecentWindow(tracking_table[k])}
LocationGroup(mac, uuid) ==
    {k \in 1..Len(tracking_table) :
        /\ tracking_table[k].object_mac_address = mac
        /\ tracking_table[k].lbeacon_uuid = uuid
        /\ InLocationWindow(tracking_table[k])}

\* ROUND(x, 0) of the numeric sum / n: half away from zero
RoundDiv(sum, n) ==
    IF sum >= 0 THEN (2 * sum + n) \div (2 * n)
    ELSE 0 - ((2 * (0 - sum) + n) \div (2 * n))

\* ROUND(AVG(rssi), 0), MIN(...) and MAX(...) over a group
RoundAvgRssi(ks) == RoundDiv(SumRssi(ks), Cardinality(ks))
MinOf(ks, column) ==
    CHOOSE v \in {tracking_table[k][column] : k \in ks} :
        \A k \in ks : v <= tracking_table[k][column]
MaxOf(ks, column) ==
    CHOOSE v \in {tracking_table[k][column] : k \in ks} :
        \A k \in ks : v >= tracking_table[k][column]

\* HAVING AVG(rssi) > -100
HavingAvgAboveFloor(ks) == SumRssi(ks) > (0 - 100) * Cardinality(ks)

TrackedBeacons == {tracking_table[k].lbeacon_uuid : k \in 1..Len(tracking_table)}

\* object_beacon_rssi_table of an object: the beacons with a group in the
\* window whose average passes the HAVING
LocationCandidates(mac) ==
    {u \in TrackedBeacons :
        /\ LocationGroup(mac, u) # {}
        /\ HavingAvgAboveFloor(LocationGroup(mac, u))}

\* rank <= 1 of ROW_NUMBER() OVER (PARTITION BY object_mac_address ORDER BY
\* object_mac_address ASC, avg_rssi DESC): one beacon of those with the
\* greatest rounded average; the window's ORDER BY names no further column
BestBeacons(mac) ==
    {u \in LocationCandidates(mac) :
        \A v \in LocationCandidates(mac) :
            RoundAvgRssi(LocationGroup(mac, u))
                >= RoundAvgRssi(LocationGroup(mac, v))}

Abs(x) == IF x >= 0 THEN x ELSE 0 - x

\* a stable_table that compares the rssi column of the summary row itself
StableRowsByStoredRssi ==
    {m \in DOMAIN object_summary_table :
        /\ object_summary_table[m].uuid # NULL
        /\ RecentGroup(m, object_summary_table[m].uuid) # {}
        /\ object_summary_table[m].rssi # NULLRSSI
        /\ \E b \in BestBeacons(m) :
              Abs(object_summary_table[m].rssi
                     - RoundAvgRssi(LocationGroup(m, b)))
                 < summ.args.rssi_difference_of_location_accuracy_tolerance}

\* a stable_table that does not join the best beacon of the object
StableRowsWithoutBest ==
    {m \in DOMAIN object_summary_table :
        /\ object_summary_table[m].uuid # NULL
        /\ RecentGroup(m, object_summary_table[m].uuid) # {}}

\* stable_table: the summary rows whose own beacon has a recent group with a
\* rounded average closer than the tolerance to that of the best beacon
StableRows ==
    {m \in DOMAIN object_summary_table :
        LET u == object_summary_table[m].uuid
        IN /\ u # NULL
           /\ RecentGroup(m, u) # {}
           /\ \E b \in BestBeacons(m) :
                 Abs(RoundAvgRssi(RecentGroup(m, u))
                        - RoundAvgRssi(LocationGroup(m, b)))
                    < summ.args.rssi_difference_of_location_accuracy_tolerance}

\* sql_update_stable_tag_template
StableUpdate ==
    [m \in DOMAIN object_summary_table |->
        IF m \in StableRows
        THEN LET g == RecentGroup(m, object_summary_table[m].uuid)
             IN [object_summary_table[m] EXCEPT
                    !.rssi = RoundAvgRssi(g),
                    !.last_seen_timestamp = MaxOf(g, "final_timestamp"),
                    !.battery_voltage = MinOf(g, "battery_voltage"),
                    !.is_location_updated = 1]
        ELSE object_summary_table[m]]

\* the rows sql_update_moving_tag_template updates
MovingRows ==
    {m \in DOMAIN object_summary_table :
        /\ object_summary_table[m].is_location_updated = 0
        /\ BestBeacons(m) # {}}

\* a moving-tag UPDATE whose CASE always takes the THEN branch
MovingUpdateOverwrite(location_information) ==
    [m \in DOMAIN object_summary_table |->
        IF m \in MovingRows
        THEN LET b == location_information[m]
                 g == LocationGroup(m, b)
             IN [object_summary_table[m] EXCEPT
                    !.first_seen_timestamp = MinOf(g, "initial_timestamp"),
                    !.rssi = RoundAvgRssi(g),
                    !.battery_voltage = MinOf(g, "battery_voltage"),
                    !.last_seen_timestamp = MaxOf(g, "final_timestamp"),
                    !.uuid = b,
                    !.is_location_updated = 1]
        ELSE object_summary_table[m]]

\* sql_update_moving_tag_template, with location_information[m] the beacon
\* that got rank 1 for m
MovingUpdate(location_information) ==
    [m \in DOMAIN object_summary_table |->
        IF m \in MovingRows
        THEN LET b == location_information[m]
                 g == LocationGroup(m, b)
                 row == object_summary_table[m]
             IN [row EXCEPT
                    !.first_seen_timestamp =
                        IF \/ row.first_seen_timestamp = NULLTS
                           \/ (row.uuid # NULL /\ row.uuid # b)
                        THEN MinOf(g, "initial_timestamp")
                        ELSE row.first_seen_timestamp,
                    !.rssi = RoundAvgRssi(g),
                    !.battery_voltage = MinOf(g, "battery_voltage"),
                    !.last_seen_timestamp = MaxOf(g, "final_timestamp"),
                    !.uuid = b,
                    !.is_location_updated = 1]
        ELSE object_summary_table[m]]


\* (SELECT weight FROM rssi_weight_table WHERE avg(rssi) >= bottom_rssi AND
\* avg(rssi) < upper_rssi LIMIT 1): the buckets the average of a group is in
WeightRows(ks) ==
    {w \in rssi_weight_table :
        /\ SumRssi(ks) >= w.bottom_rssi * Cardinality(ks)
        /\ SumRssi(ks) < w.upper_rssi * Cardinality(ks)}
WeightOf(ks) == (CHOOSE w \in WeightRows(ks) : TRUE).weight

\* beacon_rssi_table INNER JOIN lbeacon_table, for one object: the beacons
\* that count in its centroid (a group without weight adds nothing to a SUM)
BaseBeacons(mac) ==
    {u \in TrackedBeacons \cap DOMAIN lbeacon_table :
        /\ RecentGroup(mac, u) # {}
        /\ HavingAvgAboveFloor(RecentGroup(mac, u))
        /\ WeightRows(RecentGroup(mac, u)) # {}}

RECURSIVE WeightedSum(_, _, _)
WeightedSum(mac, us, column) ==
    IF us = {} THEN 0
    ELSE LET u == CHOOSE x \in us : TRUE
             w == WeightOf(RecentGroup(mac, u))
         IN (IF column = "weight" THEN w ELSE lbeacon_table[u][column] * w)
               + WeightedSum(mac, us \ {u}, column)

\* ROUND(SUM(coordinate * weight) / SUM(weight), 0)
NewBase(mac, column) ==
    RoundDiv(WeightedSum(mac, BaseBeacons(mac), column),
             WeightedSum(mac, BaseBeacons(mac), "weight"))

\* sql_update_tag_base_location_template. (Its text runs "-100" and "ORDER BY"
\* together without a blank; a server that rejects the token fails the
\* statement, which is the sql_ok = FALSE case of SummarizeBase.)
\* the update without its tolerance condition
BaseUpdateAlways ==
    [m \in DOMAIN object_summary_table |->
        IF BaseBeacons(m) # {}
        THEN [object_summary_table[m] EXCEPT
                 !.base_x = NewBase(m, "coordinate_x"),
                 !.base_y = NewBase(m, "coordinate_y")]
        ELSE object_summary_table[m]]

BaseUpdate ==
    [m \in DOMAIN object_summary_table |->
        LET row == object_summary_table[m]
            tol == summ.args.base_location_tolerance_in_millimeter
        IN IF /\ BaseBeacons(m) # {}
              /\ \/ row.base_x = NULLCOORD
                 \/ row.base_y = NULLCOORD
                 \/ Abs(row.base_x - NewBase(m, "coordinate_x")) >= tol
                 \/ Abs(row.base_y - NewBase(m, "coordinate_y")) >= tol
           THEN [row EXCEPT !.base_x = NewBase(m, "coordinate_x"),
                            !.base_y = NewBase(m, "coordinate_y")]
           ELSE row]

\* the connection and sql_reset_state_template, whose ret_val is not read
SummarizeCall(args, sql_ok) ==
    /\ summ.pc \in {"idle", "done"}
    /\ summ.calls < MaxPasses
    /\ LET fresh == [summ EXCEPT !.calls = @ + 1, !.args = args, !.stable = {},
                                  !.reset = NONE, !.located = {},
                                  !.moved = <<>>]
       IN IF ~GetSucceeds
          THEN /\ summ' = [fresh EXCEPT !.pc = "done",
                                        !.ret = E_SQL_OPEN_DATABASE]
               /\ UNCHANGED <<poolVars, threadVars, object_summary_table>>
          ELSE /\ AcquireFirstFree(IngestThread)
               /\ summ' = [fresh EXCEPT !.pc = "stable", !.ret = NONE,
                                        !.reset = IF sql_ok
                                                  THEN WORK_SUCCESSFULLY
                                                  ELSE E_SQL_EXECUTE,
                                        !.ret_val = IF sql_ok
                                                    THEN WORK_SUCCESSFULLY
                                                    ELSE E_SQL_EXECUTE]
               /\ object_summary_table' =
                     IF sql_ok
                     THEN [m \in DOMAIN object_summary_table |->
                             [object_summary_table[m] EXCEPT
                                 !.is_location_updated = 0]]
                     ELSE object_summary_table
    /\ UNCHANGED <<now, object_table, tracking_table, ingestVars, hVars, drain,
                   recv, reg, maint>>

\* one of the three UPDATEs that follow: on failure the connection is
\* released and E_SQL_EXECUTE returned
SummarizeStep(at, next, table, sql_ok, updated) ==
    /\ summ.pc = at
    /\ IF sql_ok
       THEN /\ object_summary_table' = table
            /\ IF next = "done"
               THEN /\ ReleaseSerial(IngestThread)
                    /\ summ' = [summ EXCEPT !.pc = "done",
                                            !.ret = WORK_SUCCESSFULLY,
                                            !.ret_val = WORK_SUCCESSFULLY,
                                            !.stable = {}, !.moved = <<>>,
                                            !.reset = NONE, !.located = {}]
               ELSE /\ summ' = [updated EXCEPT !.pc = next,
                                               !.ret_val = WORK_SUCCESSFULLY]
                    /\ UNCHANGED <<poolVars, threadVars>>
       ELSE /\ UNCHANGED object_summary_table
            /\ ReleaseSerial(IngestThread)
            /\ summ' = [summ EXCEPT !.pc = "done", !.ret = E_SQL_EXECUTE,
                                    !.ret_val = WORK_SUCCESSFULLY,
                                    !.stable = {}, !.moved = <<>>,
                                    !.reset = NONE, !.located = {}]
    /\ UNCHANGED <<now, object_table, tracking_table, ingestVars, hVars, drain,
                   recv, reg, maint>>

\* what the CASE of the moving-tag UPDATE reads for the rows it updates
MovingRead(location_information) ==
    [m \in MovingRows |->
        [uuid |-> object_summary_table[m].uuid,
         first_seen_timestamp |-> object_summary_table[m].first_seen_timestamp,
         initial_timestamp |->
             MinOf(LocationGroup(m, location_information[m]),
                   "initial_timestamp")]]

SummarizeStable(sql_ok) ==
    SummarizeStep("stable", "moving", StableUpdate, sql_ok,
                  [summ EXCEPT !.stable = StableRows,
                               !.located = {m \in DOMAIN object_summary_table :
                                               LocationCandidates(m) # {}}])

SummarizeMoving(sql_ok) ==
    /\ summ.pc = "moving"
    /\ \E location_information \in
          [MovingRows -> UNION {BestBeacons(m) : m \in MovingRows}] :
        /\ \A m \in MovingRows : location_information[m] \in BestBeacons(m)
        /\ SummarizeStep("moving", "base",
                         MovingUpdate(location_information), sql_ok,
                         [summ EXCEPT
                             !.moved = MovingRead(location_information)])

SummarizeBase(sql_ok) ==
    SummarizeStep("base", "done", BaseUpdate, sql_ok, summ)

\* a sighting reaches tracking_table (the COPY of an ingest)
SightingArrives(row) ==
    /\ Len(tracking_table) < MaxTracks
    /\ tracking_table' = Append(tracking_table, row)
    /\ UNCHANGED <<poolVars, threadVars, now, object_table,
                   object_summary_table, ingestVars, otherVars>>

\* ------------------------------------------------------------------------
\* Geo-Fencing.c: process_api_recv, the packet pool and the worker pool
\* ------------------------------------------------------------------------
\* the memory pools geo_fence_initial creates with mp_init
MemPools ==
    {"pkt_content_mempool", "tracked_mac_list_head_mempool",
     "rssi_list_node_mempool"}

\* geo_fence_free has destroyed the worker pool or the packet pool
TornDown ==
    \/ ~recv.thpool_alive
    \/ "pkt_content_mempool" \notin recv.pools

\* the tracking records a datagram carries: the beacon, the object and rssi
PacketRecords ==
    {[uuid |-> u, mac_address |-> "m1", rssi |-> r] :
        u \in {"u1", "u2"}, r \in {0 - 40, 0 - 80}}
NoRecord == [uuid |-> NULL, mac_address |-> NULL, rssi |-> 0]

\* is_in_geo_fence(uuid): the beacons that belong to a fence
FenceBeacons == {"u1"}

RecvIdle ==
    [pc |-> "recv", is_running |-> TRUE, received |-> 0, pkt |-> 0,
     pkt_content |-> 0, free_slots |-> SLOTS_IN_MEM_POOL,
     queue |-> <<>>, running |-> {},
     num_threads_working |-> 0, num_threads_alive |-> NumWorkers,
     observed |-> FALSE, submissions |-> <<>>, return_value |-> 0,
     free_pc |-> "none", udp_open |-> TRUE, thpool_alive |-> TRUE,
     pools |-> MemPools, teardown |-> <<>>, late |-> {},
     decision_threshold |-> 0 - 60, content |-> NoRecord,
     qualified |-> {}, identify_calls |-> {}]

\* temppkt = udp_getrecv(...): a datagram of type UDP, or nothing
udp_getrecv(type) ==
    /\ recv.pc = "recv"
    /\ recv.is_running
    /\ recv.received < MaxPackets
    /\ \E rec \in PacketRecords :
          recv' = IF type = "UDP"
                  THEN [recv EXCEPT !.received = @ + 1,
                                    !.pkt = recv.received + 1,
                                    !.content = rec, !.pc = "alloc"]
                  ELSE recv
    /\ UNCHANGED <<poolVars, threadVars, dbVars, ingestVars, hVars, drain, summ, reg, maint>>

\* mp_alloc: a slot of the pool, or NULL when none is free
mp_alloc == IF recv.free_slots > 0
            THEN SLOTS_IN_MEM_POOL - recv.free_slots + 1 ELSE 0

\* pkt_content = mp_alloc(...) and the copies into it. The result is used
\* unchecked: with NULL, strlen(pkt_content) reads address 0, and the
\* process dies or runs on with the null pointer. On a pool that mp_destroy
\* has freed the call reads freed memory: it dies, or goes on as before.
ReceiverAlloc(survives) ==
    /\ recv.pc = "alloc"
    /\ LET late == IF TornDown THEN recv.late \cup {"mp_alloc"}
                    ELSE recv.late
       IN recv' = IF "pkt_content_mempool" \notin recv.pools /\ ~survives
                  THEN [recv EXCEPT !.pkt_content = 0, !.pc = "crashed",
                                    !.late = late]
                  ELSE IF mp_alloc # 0
                  THEN [recv EXCEPT !.pkt_content = mp_alloc,
                                    !.free_slots = @ - 1, !.pc = "wait",
                                    !.late = late]
                  ELSE IF survives
                  THEN [recv EXCEPT !.pkt_content = 0, !.pc = "wait",
                                    !.late = late]
                  ELSE [recv EXCEPT !.pkt_content = 0, !.pc = "crashed",
                                    !.late = late]
    /\ UNCHANGED <<poolVars, threadVars, dbVars, ingestVars, hVars, drain, summ, reg, maint>>

\* while(num_threads_working == num_threads_alive) Sleep(WAITING_TIME)
ReceiverWait ==
    /\ recv.pc = "wait"
    /\ recv' = IF recv.num_threads_working = recv.num_threads_alive
               THEN [recv EXCEPT !.observed = FALSE]
               ELSE [recv EXCEPT !.observed = TRUE, !.pc = "submit"]
    /\ UNCHANGED <<poolVars, threadVars, dbVars, ingestVars, hVars, drain, summ, reg, maint>>

\* return_value = thpool_add_work(...): the job joins the FIFO, or the call
\* fails; return_value is not read; free(tmp_addr)
thpool_add_work(ok) ==
    /\ recv.pc = "submit"
    /\ recv' = [recv EXCEPT
                  !.queue = IF ok THEN Append(@, [pkt |-> recv.pkt,
                                                  content |-> recv.pkt_content,
                                                  rec |-> recv.content])
                            ELSE @,
                  !.submissions =
                      Append(@, [pkt |-> recv.pkt, accepted |-> ok,
                                 content |-> recv.pkt_content,
                                 observed |-> recv.observed,
                                 working |-> recv.num_threads_working,
                                 alive |-> recv.num_threads_alive]),
                  !.return_value = IF ok THEN 0 ELSE -1,
                  !.late = IF TornDown THEN @ \cup {"thpool_add_work"}
                           ELSE @,
                  !.pkt = 0, !.pkt_content = 0, !.observed = FALSE,
                  !.content = NoRecord,
                  !.pc = "recv"]
    /\ UNCHANGED <<poolVars, threadVars, dbVars, ingestVars, hVars, drain, summ, reg, maint>>

\* a worker thread takes the job at the head of the FIFO
WorkerTake ==
    /\ recv.thpool_alive
    /\ recv.queue # <<>>
    /\ recv.num_threads_working < recv.num_threads_alive
    /\ recv' = [recv EXCEPT !.queue = Tail(@),
                            !.running = @ \cup {Head(recv.queue)},
                            !.num_threads_working = @ + 1]
    /\ UNCHANGED <<poolVars, threadVars, dbVars, ingestVars, hVars, drain, summ, reg, maint>>

\* the record passes the tests of the routine: its beacon is a fence
\* beacon, its mac is not in the tracked list (nothing is ever put in that
\* list) and rssi >= decision_threshold
PassesFilter(rec) ==
    /\ rec.uuid \in FenceBeacons
    /\ rec.rssi >= recv.decision_threshold

\* process_geo_fence_routine runs to its end. The branches a record that
\* passes the filter reaches are empty: the routine calls nothing of the
\* database layer, and nothing in it frees pkt_content.
process_geo_fence_routine(job) ==
    /\ job \in recv.running
    /\ recv' = [recv EXCEPT !.running = @ \ {job},
                            !.num_threads_working = @ - 1,
                            !.qualified =
                                IF PassesFilter(job.rec)
                                THEN @ \cup {job.rec.mac_address} ELSE @,
                            !.identify_calls = @]
    /\ UNCHANGED <<poolVars, threadVars, dbVars, ingestVars, hVars, drain, summ, reg, maint>>

\* while(geo_fence_config -> is_running == true) is false: the thread ends
ReceiverExit ==
    /\ recv.pc = "recv"
    /\ ~recv.is_running
    /\ recv' = [recv EXCEPT !.pc = "exited"]
    /\ UNCHANGED <<poolVars, threadVars, dbVars, ingestVars, hVars, drain, summ, reg, maint>>

\* geo_fence_free: is_running = false, then Sleep(WAITING_TIME). The sleep
\* orders nothing: the receiver takes any number of steps meanwhile.
geo_fence_free ==
    /\ recv.free_pc = "none"
    /\ recv' = [recv EXCEPT !.is_running = FALSE, !.free_pc = "udp_release"]
    /\ UNCHANGED <<poolVars, threadVars, dbVars, ingestVars, hVars, drain, summ, reg, maint>>

\* udp_release(&geo_fence_config -> udp_config)
udp_release ==
    /\ recv.free_pc = "udp_release"
    /\ recv' = [recv EXCEPT !.udp_open = FALSE,
                            !.teardown = Append(@, "udp_release"),
                            !.free_pc = "thpool_destroy"]
    /\ UNCHANGED <<poolVars, threadVars, dbVars, ingestVars, hVars, drain, summ, reg, maint>>

\* thpool_destroy: returns when the jobs are done and the workers joined
thpool_destroy ==
    /\ recv.free_pc = "thpool_destroy"
    /\ recv.queue = <<>>
    /\ recv.running = {}
    /\ recv' = [recv EXCEPT !.thpool_alive = FALSE,
                            !.num_threads_alive = 0,
                            !.teardown = Append(@, "thpool_destroy"),
                            !.free_pc = "mp_destroy"]
    /\ UNCHANGED <<poolVars, threadVars, dbVars, ingestVars, hVars, drain, summ, reg, maint>>

\* mp_destroy(&geo_fence_config -> pkt_content_mempool), the last statement
mp_destroy ==
    /\ recv.free_pc = "mp_destroy"
    /\ recv' = [recv EXCEPT !.pools = @ \ {"pkt_content_mempool"},
                            !.teardown = Append(@, "pkt_content_mempool"),
                            !.free_pc = "done"]
    /\ UNCHANGED <<poolVars, threadVars, dbVars, ingestVars, hVars, drain, summ, reg, maint>>

vars == <<poolVars, threadVars, dbVars, ingestVars, otherVars>>

PoolInit ==
    /\ pool_created = FALSE
    /\ max_connection = 0
    /\ entry = <<>>
    /\ lnext = (HEAD :> HEAD)
    /\ lprev = (HEAD :> HEAD)
    /\ list_lock = 0
    /\ pc = [t \in Threads |-> "idle"]
    /\ cur = [t \in Threads |-> HEAD]
    /\ retry_times = [t \in Threads |-> 0]
    /\ db_serial_id = [t \in Threads |-> -1]
    /\ db_conn = [t \in Threads |-> 0]
    /\ holds = [t \in Threads |-> {}]
    /\ now = 0
    /\ object_table = <<>>
    /\ object_summary_table = <<>>
    /\ tracking_table = <<>>
    /\ ing = IngestIdle
    /\ csv_file = <<>>
    /\ file_exists = FALSE
    /\ lbeacon_table = <<>>
    /\ monitor_config = <<>>
    /\ notification_table = <<>>
    /\ hrun = HIdle(NoConfig)
    /\ drain = DrainIdle
    /\ recv = RecvIdle
    /\ summ = SummIdle
    /\ reg = RegIdle
    /\ maint = MaintIdle

Init == PoolInit

Next ==
    \/ \E n \in 1..MaxPool : SQL_create_database_connection_pool(n)
    \/ \E t \in Threads : GetCall(t)
    \/ \E t \in Threads : GetRetry(t)
    \/ \E t \in Threads : GetLock(t)
    \/ \E t \in Threads : GetScan(t)
    \/ \E t \in Threads : GetTake(t)
    \/ \E t \in Threads : GetUnlockHit(t)
    \/ \E t \in Threads : GetUnlockMiss(t)
    \/ \E t \in Threads : ReleaseCall(t)
    \/ \E t \in Threads : ReleaseLock(t)
    \/ \E t \in Threads : ReleaseScan(t)
    \/ \E t \in Threads : ReleaseUnlock(t)

Spec == Init /\ [][Next]_vars

\* ------------------------------------------------------------------------
\* The tracking reports fed to the ingest
\* ------------------------------------------------------------------------
RECURSIVE SeqsUpTo(_, _)
SeqsUpTo(S, n) ==
    IF n = 0 THEN {<<>>}
    ELSE LET shorter == SeqsUpTo(S, n - 1)
         IN shorter \cup {Append(q, x) : q \in {r \in shorter : Len(r) = n - 1}, x \in S}

SubRecords == [mac : Macs, panic : {"0", "1"}]

\* <mac>;<init_ts>;<final_ts>;<rssi>;<panic>;<battery_mV>
RecordTokens(r) == <<r.mac, "100", "86500", "-60", r.panic, "3000">>

RECURSIVE Flatten(_)
Flatten(rs) == IF rs = <<>> THEN <<>> ELSE RecordTokens(Head(rs)) \o Flatten(Tail(rs))

\* <uuid>;<lbeacon_timestamp>;<lbeacon_ip>; then one block per object type
BlockOne(rep) == <<"u1", "1000", "ip1", "t0", rep.c1>> \o Flatten(rep.r1)
FullPayload(rep) == BlockOne(rep) \o <<"t1", rep.c2>> \o Flatten(rep.r2)
Payload(rep) == SubSeq(FullPayload(rep), 1, rep.cut)

Consistent(rep) == atoi(rep.c1) = Len(rep.r1) /\ atoi(rep.c2) = Len(rep.r2)
WellFormed(rep) == Consistent(rep) /\ rep.cut = Len(FullPayload(rep))

\* Reports whose counts match their records, whole or cut short, and whole
\* reports whose counts do not match.
Reports ==
    LET shapes == [c1 : {"0", "1", "2"}, r1 : SeqsUpTo(SubRecords, MaxRecords),
                   c2 : {"0", "1"},
                   r2 : {<<>>, <<[mac |-> "m2", panic |-> "0"]>>,
                         <<[mac |-> "m1", panic |-> "1"]>>}]
        Cuts(sh) == LET full == Len(FullPayload([sh EXCEPT !.c1 = sh.c1]))
                        b1 == Len(BlockOne(sh))
                    IN IF atoi(sh.c1) = Len(sh.r1) /\ atoi(sh.c2) = Len(sh.r2)
                       THEN {1, 3, b1, full - 1, full} ELSE {full}
    IN UNION {{[c1 |-> sh.c1, r1 |-> sh.r1, c2 |-> sh.c2, r2 |-> sh.r2,
                cut |-> k] : k \in Cuts(sh)} : sh \in shapes}

\* the tracking_table row a sub-record stands for
ExpectedRow(r, at) ==
    [object_mac_address |-> r.mac, lbeacon_uuid |-> "u1",
     rssi |-> -60, panic_button |-> atoi(r.panic), battery_voltage |-> 3000,
     initial_timestamp |-> 100, final_timestamp |-> 86500,
     server_time_offset |-> at - 1000]

SummaryRow(u) ==
    [uuid |-> u,
     geofence_violation_timestamp |-> NULLTS,
     panic_violation_timestamp |-> NULLTS,
     movement_violation_timestamp |-> NULLTS,
     location_violation_timestamp |-> NULLTS,
     first_seen_timestamp |-> NULLTS,
     last_seen_timestamp |-> NULLTS]

ObjectRow(mt) == [monitor_type |-> mt, area_id |-> 1, room |-> "r1"]

IngestInit ==
    \* a pool of one connection, shared with another operation
    /\ pool_created = TRUE
    /\ max_connection = 1
    /\ entry = CreatePool(1).entry
    /\ lnext = CreatePool(1).list.nx
    /\ lprev = CreatePool(1).list.pv
    /\ list_lock = 0
    /\ pc = [t \in Threads |-> "idle"]
    /\ cur = [t \in Threads |-> HEAD]
    /\ retry_times = [t \in Threads |-> 0]
    /\ db_serial_id = [t \in Threads |-> -1]
    /\ db_conn = [t \in Threads |-> 0]
    /\ holds = [t \in Threads |-> {}]
    /\ now = 1005
    /\ object_table \in {[m \in Macs |-> ObjectRow(0)],
                         [m \in Macs |-> ObjectRow(IF m = "m1" THEN MONITOR_PANIC ELSE 0)]}
    /\ object_summary_table = [m \in Macs |-> SummaryRow("u1")]
    /\ tracking_table = <<>>
    /\ ing = IngestIdle
    /\ csv_file = <<>>
    /\ file_exists = FALSE
    /\ lbeacon_table = <<>>
    /\ monitor_config = <<>>
    /\ notification_table = <<>>
    /\ hrun = HIdle(NoConfig)
    /\ drain = DrainIdle
    /\ recv = RecvIdle
    /\ summ = SummIdle
    /\ reg = RegIdle
    /\ maint = MaintIdle

IngestNext ==
    \/ \E rep \in Reports, fopen_ok \in BOOLEAN,
          is_enabled_panic_monitoring \in {0, 1} :
          IngestCall(Payload(rep), rep, fopen_ok, is_enabled_panic_monitoring)
    \/ IngestTypes
    \/ IngestRecord
    \/ IngestPanicGet
    \/ \E sql_ok \in BOOLEAN : IngestPanicExec(sql_ok)
    \/ IngestPanicRelease
    \/ IngestWrite
    \/ IngestCopyGet
    \/ \E sql_ok \in BOOLEAN : IngestCopyExec(sql_ok)
    \/ IngestCopyRelease
    \/ OtherGet
    \/ OtherRelease

SpecIngest == IngestInit /\ [][IngestNext]_vars

\* Whole reports whose first object count is zero, negative or not a number
CountReports ==
    {[sh EXCEPT !.cut = Len(FullPayload(sh))] :
        sh \in [c1 : {"0", "-1", "x"}, r1 : SeqsUpTo(SubRecords, 1),
                c2 : {"0", "1"},
                r2 : {<<>>, <<[mac |-> "m2", panic |-> "0"]>>,
                      <<[mac |-> "m1", panic |-> "1"]>>},
                cut : {0}]}

CountsNext ==
    \/ \E rep \in CountReports, fopen_ok \in BOOLEAN, is_enabled_panic_monitoring \in {0, 1} :
          IngestCall(Payload(rep), rep, fopen_ok, is_enabled_panic_monitoring)
    \/ IngestTypes
    \/ IngestRecord
    \/ IngestPanicGet
    \/ \E sql_ok \in BOOLEAN : IngestPanicExec(sql_ok)
    \/ IngestPanicRelease
    \/ IngestWrite
    \/ IngestCopyGet
    \/ \E sql_ok \in BOOLEAN : IngestCopyExec(sql_ok)
    \/ IngestCopyRelease
    \/ OtherGet
    \/ OtherRelease

SpecCounts == IngestInit /\ [][CountsNext]_vars

\* ------------------------------------------------------------------------
\* The violation pipeline on two objects and two beacons
\* ------------------------------------------------------------------------
\* a pool of one connection, shared with another operation
SharedPoolInit ==
    /\ pool_created = TRUE
    /\ max_connection = 1
    /\ entry = CreatePool(1).entry
    /\ lnext = CreatePool(1).list.nx
    /\ lprev = CreatePool(1).list.pv
    /\ list_lock = 0
    /\ pc = [t \in Threads |-> "idle"]
    /\ cur = [t \in Threads |-> HEAD]
    /\ retry_times = [t \in Threads |-> 0]
    /\ db_serial_id = [t \in Threads |-> -1]
    /\ db_conn = [t \in Threads |-> 0]
    /\ holds = [t \in Threads |-> {}]

IngestAtRest ==
    /\ ing = IngestIdle
    /\ csv_file = <<>>
    /\ file_exists = FALSE

ConfigRow(start_time, end_time, stay_duration) ==
    [area_id |-> 1, enable |-> 1, start_time |-> start_time,
     end_time |-> end_time, is_active |-> 0, stay_duration |-> stay_duration]

\* the parameters the server passes to the job
JobConfigs ==
    {[t0 |-> 1000, offset |-> 8, time_interval_in_sec |-> 3, granularity |-> 2,
      time_interval_in_min |-> 2, each_time_slot_in_min |-> 1, rssi_delta |-> 10],
     [t0 |-> 1000, offset |-> 8, time_interval_in_sec |-> 1, granularity |-> 0,
      time_interval_in_min |-> 2, each_time_slot_in_min |-> 1, rssi_delta |-> 10]}

TrackingRow(mac, uuid, rssi, final) ==
    [object_mac_address |-> mac, lbeacon_uuid |-> uuid, rssi |-> rssi,
     panic_button |-> 0, battery_voltage |-> 3000,
     initial_timestamp |-> final, final_timestamp |-> final,
     server_time_offset |-> 0]

ViolationInit ==
    /\ SharedPoolInit
    /\ IngestAtRest
    /\ now = 1000
    /\ object_table =
          [m \in Macs |-> ObjectRow(IF m = "m1"
                                    THEN MONITOR_GEO_FENCE + MONITOR_PANIC
                                           + MONITOR_MOVEMENT + MONITOR_LOCATION
                                    ELSE MONITOR_MOVEMENT + MONITOR_LOCATION)]
    /\ lbeacon_table = [u \in {"u1", "u2"} |->
                          IF u = "u1" THEN [room |-> "r1", danger_area |-> 1]
                          ELSE [room |-> "r2", danger_area |-> 0]]
    \* m1 has crossed a fence and is at no beacon yet, or at u2 in the wrong
    \* room; m2 has been at u1, a danger area, for ten minutes
    /\ \E u \in {NULL, "u2"} :
          object_summary_table =
             [m \in Macs |->
                IF m = "m1"
                THEN [SummaryRow(u) EXCEPT
                        !.geofence_violation_timestamp = 1000,
                        !.first_seen_timestamp = IF u = NULL THEN NULLTS ELSE 990,
                        !.last_seen_timestamp = IF u = NULL THEN NULLTS ELSE 1000]
                ELSE [SummaryRow("u1") EXCEPT
                        !.first_seen_timestamp = 400,
                        !.last_seen_timestamp = 1000]]
    \* m2 was heard in two time slots with different strength, m1 never
    /\ tracking_table =
          <<TrackingRow("m2", "u1", -60, 910), TrackingRow("m2", "u1", -40, 990)>>
    \* local time is 08:16:40; the wrong-room window wraps past midnight and
    \* closes two seconds later, the long-stay window opens one second later
    /\ monitor_config =
          [name \in {ConfigTables[k] : k \in 1..Len(ConfigTables)} |->
             CASE name = "geo_fence_config" -> ConfigRow(0, 86399, 0)
               [] name = "location_not_stay_room_config" -> ConfigRow(86000, 29802, 0)
               [] name = "location_long_stay_in_danger_config" -> ConfigRow(29801, 86000, 5)
               [] OTHER -> ConfigRow(0, 86399, 0)]
    /\ notification_table = <<>>
    /\ hrun \in {HIdle(cfg) : cfg \in JobConfigs}
    /\ drain = DrainIdle
    /\ recv = RecvIdle
    /\ summ = SummIdle
    /\ reg = RegIdle
    /\ maint = MaintIdle

ViolationNext ==
    \/ \E k \in 0..Len(ConfigTables) : SQL_reload_monitor_config(k)
    \/ \E sql_ok \in BOOLEAN : SQL_identify_location_not_stay_room(sql_ok)
    \/ \E sql_ok \in BOOLEAN : SQL_identify_location_long_stay_in_danger(sql_ok)
    \/ \E failed_row \in 0..Len(MacsAscending) :
          SQL_identify_last_movement_status(hrun.cfg.time_interval_in_min,
                                            hrun.cfg.each_time_slot_in_min,
                                            hrun.cfg.rssi_delta, failed_row)
    \/ \E monitor_type \in MonitorTypes, sql_ok \in BOOLEAN :
          SQL_collect_violation_events(monitor_type,
                                       hrun.cfg.time_interval_in_sec,
                                       hrun.cfg.granularity, sql_ok)
    \/ \E mac \in Macs : PanicSighting(mac)
    \/ \E mac \in Macs, sql_ok \in BOOLEAN :
          SQL_identify_geofence_violation(mac, sql_ok)
    \/ Tick

SpecViolation == ViolationInit /\ [][ViolationNext]_vars

\* ------------------------------------------------------------------------
\* The drain on the notifications the collects have left
\* ------------------------------------------------------------------------
NotificationRows ==
    [uuid : {NULL, "u1"}, processed : {0, 1}]

Notification(k, r) ==
    [id |-> k, monitor_type |-> MONITOR_GEO_FENCE, mac_address |-> "m1",
     uuid |-> r.uuid, violation_timestamp |-> 1000, processed |-> r.processed]

DrainInit ==
    /\ SharedPoolInit
    /\ IngestAtRest
    /\ now = 1000
    /\ object_table = <<>>
    /\ object_summary_table = <<>>
    /\ tracking_table = <<>>
    /\ lbeacon_table = <<>>
    /\ monitor_config = <<>>
    /\ \E rows \in SeqsUpTo(NotificationRows, MaxNotifications) :
          notification_table = [k \in 1..Len(rows) |-> Notification(k, rows[k])]
    /\ hrun = HIdle(NoConfig)
    /\ drain = DrainIdle
    /\ recv = RecvIdle
    /\ summ = SummIdle
    /\ reg = RegIdle
    /\ maint = MaintIdle

\* the sizes of the caller's buffer: none, one short record, one record,
\* two records, and room for all
BufLens == {0, 20, 22, 41, 100}

DrainNext ==
    \/ \E buf_len \in BufLens, sql_ok \in BOOLEAN : DrainCall(buf_len, sql_ok)
    \/ \E sql_ok \in BOOLEAN : DrainRow(sql_ok)
    \/ DrainReturn
    \/ OtherGet
    \/ OtherRelease

SpecDrain == DrainInit /\ [][DrainNext]_vars

\* ------------------------------------------------------------------------
\* The reload of the rules around midnight
\* ------------------------------------------------------------------------
\* the rule rows: enabled or not; a window that ends at 23:59:59, one that
\* wraps to 00:00:01, one that wraps to 00:00:00, one with start = end
ReloadRows ==
    {[ConfigRow(w[1], w[2], 0) EXCEPT !.enable = e] :
        w \in {<<86398, 86399>>, <<86399, 1>>, <<86399, 0>>, <<86399, 86399>>},
        e \in {0, 1}}

\* the server's offset to UTC, and a clock that starts when local time is
\* 23:59:58
ReloadConfigs ==
    {[t0 |-> 57598, offset |-> 8], [t0 |-> 86398, offset |-> 0]}

ReloadInit ==
    /\ SharedPoolInit
    /\ IngestAtRest
    /\ hrun \in {HIdle(cfg) : cfg \in ReloadConfigs}
    /\ now = hrun.cfg.t0
    /\ object_table = <<>>
    /\ object_summary_table = <<>>
    /\ tracking_table = <<>>
    /\ lbeacon_table = <<>>
    /\ monitor_config \in
          [{ConfigTables[k] : k \in 1..Len(ConfigTables)} -> ReloadRows]
    /\ notification_table = <<>>
    /\ drain = DrainIdle
    /\ recv = RecvIdle
    /\ summ = SummIdle
    /\ reg = RegIdle
    /\ maint = MaintIdle

ReloadNext ==
    \/ \E k \in 0..Len(ConfigTables) : SQL_reload_monitor_config(k)
    \/ Tick

SpecReload == ReloadInit /\ [][ReloadNext]_vars

\* ------------------------------------------------------------------------
\* The long stay in a danger area
\* ------------------------------------------------------------------------
\* last_seen_timestamp - first_seen_timestamp in seconds: 5 minutes, 6 and a
\* half, 61, 66, and one day and 2 minutes
DwellSeconds == {300, 390, 3660, 3960, 86520}

\* a summary row of an object that has been at beacon u for dwell seconds
DwellRow(u, dwell) ==
    [SummaryRow(u) EXCEPT !.first_seen_timestamp = 100000 - dwell,
                          !.last_seen_timestamp = 100000]

\* u1 is a danger area, u2 is not; both are in the objects' room. The rule
\* of the area asks for more than 5 minutes and is enabled or not.
LongStayInit ==
    /\ SharedPoolInit
    /\ IngestAtRest
    /\ hrun = HIdle([t0 |-> 100000, offset |-> 8])
    /\ now = 100000
    /\ object_table \in
          [Macs -> {ObjectRow(MONITOR_LOCATION), ObjectRow(MONITOR_MOVEMENT)}]
    /\ object_summary_table \in
          [Macs -> {DwellRow(u, d) : u \in {"u1", "u2"}, d \in DwellSeconds}]
    /\ tracking_table = <<>>
    /\ lbeacon_table = [u \in {"u1", "u2"} |->
                          [room |-> "r1",
                           danger_area |-> IF u = "u1" THEN 1 ELSE 0]]
    /\ \E e \in {0, 1} :
          monitor_config =
             [name \in {ConfigTables[k] : k \in 1..Len(ConfigTables)} |->
                IF name = "location_long_stay_in_danger_config"
                THEN [ConfigRow(0, 86399, 5) EXCEPT !.enable = e]
                ELSE ConfigRow(0, 86399, 0)]
    /\ notification_table = <<>>
    /\ drain = DrainIdle
    /\ recv = RecvIdle
    /\ summ = SummIdle
    /\ reg = RegIdle
    /\ maint = MaintIdle

LongStayNext ==
    \/ \E k \in 0..Len(ConfigTables) : SQL_reload_monitor_config(k)
    \/ \E sql_ok \in BOOLEAN : SQL_identify_location_not_stay_room(sql_ok)
    \/ \E sql_ok \in BOOLEAN : SQL_identify_location_long_stay_in_danger(sql_ok)

SpecLongStay == LongStayInit /\ [][LongStayNext]_vars

\* ------------------------------------------------------------------------
\* The movement monitor
\* ------------------------------------------------------------------------
\* the sightings of m1 that tracking_table can hold at 1000: one from before
\* the two minutes of the interval, one in each of its three time slots, and
\* a second one in the last slot. NoSighting is a row that is not there.
NoSighting == TrackingRow(NULL, NULL, 0, 0)
IsSighting(r) == r # NoSighting
SightingChoices ==
    <<{NoSighting, TrackingRow("m1", "u1", 0 - 61, 870)},
      {NoSighting} \cup {TrackingRow("m1", "u1", r, 890) : r \in {0 - 40, 0 - 50}},
      {NoSighting, TrackingRow("m1", "u2", 0 - 61, 910)}
         \cup {TrackingRow("m1", "u1", r, 910) : r \in {0 - 40, 0 - 50, 0 - 61}},
      {NoSighting}
         \cup {TrackingRow("m1", "u1", r, 990) : r \in {0 - 40, 0 - 50, 0 - 61}},
      {NoSighting, TrackingRow("m1", "u1", 0 - 61, 990)}>>

\* m1 is at u1 or at no beacon, and monitored for movement or not; m2 is
\* monitored, at u1, and was not heard; the rule is enabled or not
MovementInit ==
    /\ SharedPoolInit
    /\ IngestAtRest
    /\ hrun = HIdle([t0 |-> 1000, offset |-> 8, time_interval_in_min |-> 2,
                     each_time_slot_in_min |-> 1, rssi_delta |-> 10])
    /\ now = 1000
    /\ \E mt \in {MONITOR_MOVEMENT, MONITOR_LOCATION} :
          object_table = [m \in Macs |->
                            ObjectRow(IF m = "m1" THEN mt
                                      ELSE MONITOR_MOVEMENT)]
    /\ \E u \in {NULL, "u1"} :
          object_summary_table =
             [m \in Macs |->
                IF m = "m1" /\ u = NULL THEN SummaryRow(NULL)
                ELSE [SummaryRow("u1") EXCEPT !.first_seen_timestamp = 860,
                                              !.last_seen_timestamp = 1000]]
    /\ \E rows \in [DOMAIN SightingChoices ->
                        UNION {SightingChoices[i] : i \in DOMAIN SightingChoices}] :
          /\ \A i \in DOMAIN SightingChoices : rows[i] \in SightingChoices[i]
          /\ tracking_table = SelectSeq(rows, IsSighting)
    /\ lbeacon_table = [u \in {"u1", "u2"} |->
                          [room |-> "r1", danger_area |-> 0]]
    /\ \E e \in {0, 1} :
          monitor_config =
             [name \in {ConfigTables[k] : k \in 1..Len(ConfigTables)} |->
                IF name = "movement_config"
                THEN [ConfigRow(0, 86399, 0) EXCEPT !.enable = e]
                ELSE ConfigRow(0, 86399, 0)]
    /\ notification_table = <<>>
    /\ drain = DrainIdle
    /\ recv = RecvIdle
    /\ summ = SummIdle
    /\ reg = RegIdle
    /\ maint = MaintIdle

MovementNext ==
    \/ \E k \in 0..Len(ConfigTables) : SQL_reload_monitor_config(k)
    \/ \E sql_ok \in BOOLEAN : SQL_identify_location_not_stay_room(sql_ok)
    \/ \E sql_ok \in BOOLEAN : SQL_identify_location_long_stay_in_danger(sql_ok)
    \/ \E failed_row \in 0..Len(MacsAscending) :
          SQL_identify_last_movement_status(hrun.cfg.time_interval_in_min,
                                            hrun.cfg.each_time_slot_in_min,
                                            hrun.cfg.rssi_delta, failed_row)

SpecMovement == MovementInit /\ [][MovementNext]_vars

\* ------------------------------------------------------------------------
\* Registration reports of gateways and beacons
\* ------------------------------------------------------------------------
\* a beacon uuid: 12 characters, the x coordinate, 4 characters, the y
\* coordinate
UuidOf(x, y) ==
    <<"0", "0", "0", "0", "0", "0", "0", "0", "0", "0", "0", "1">> \o x
       \o <<"0", "0", "0", "0">> \o y

Uuids ==
    {UuidOf(<<"0", "0", "0", "0", "1", "2", "3", "4">>,
            <<"0", "0", "0", "0", "5", "6", "7", "8">>),
     UuidOf(<<"0", "0", "0", "0", "5", "6", "7", "8">>,
            <<"0", "0", "0", "0", "0", "A", "1", "2">>),
     SubSeq(UuidOf(<<"0", "0", "0", "0", "1", "2", "3", "4">>,
                   <<"0", "0", "0", "0", "5", "6", "7", "8">>), 1, 28)}

GatewayReports ==
    {<<>>, <<"0">>, <<"1", "ip1">>, <<"2", "ip1", "ip2">>, <<"2", "ip1">>}

LbeaconReports ==
    {<<"1", "ip1", u, "1000", "ip3">> : u \in Uuids}
       \cup {<<"1", "ip1", u, "1000", "ip3", u, "1000", "ip3">> : u \in Uuids}
       \cup {<<"2", "ip1", u, "1000", "ip3">> : u \in Uuids}
       \cup {<<"2", "ip1", u, "1000", "ip3", v, "1000", "ip4">> :
                 u \in {UuidOf(<<"0", "0", "0", "0", "1", "2", "3", "4">>,
                               <<"0", "0", "0", "0", "5", "6", "7", "8">>)},
                 v \in {UuidOf(<<"0", "0", "0", "0", "5", "6", "7", "8">>,
                               <<"0", "0", "0", "0", "0", "A", "1", "2">>)}}
       \cup {<<>>, <<"0", "ip1">>}

RegisterInit ==
    /\ SharedPoolInit
    /\ IngestAtRest
    /\ hrun = HIdle([t0 |-> 1000])
    /\ now = 1000
    /\ object_table = <<>>
    /\ object_summary_table = <<>>
    /\ tracking_table = <<>>
    /\ lbeacon_table = <<>>
    /\ monitor_config = <<>>
    /\ notification_table = <<>>
    /\ drain = DrainIdle
    /\ recv = RecvIdle
    /\ summ = SummIdle
    /\ reg = RegIdle
    /\ maint = MaintIdle

RegisterNext ==
    \/ \E buf \in GatewayReports, fail \in 0..2, survives \in BOOLEAN :
          SQL_update_gateway_registration_status(buf, fail, survives)
    \/ \E buf \in LbeaconReports, gateway_ip_address \in {"ip1", "ip2"},
          fail \in 0..2, survives \in BOOLEAN :
          SQL_update_lbeacon_registration_status(buf, gateway_ip_address,
                                                 fail, survives)
    \/ OtherGet
    \/ OtherRelease
    \/ Tick

SpecRegister == RegisterInit /\ [][RegisterNext]_vars

\* ------------------------------------------------------------------------
\* The notifications between the job that inserts them, the drain and the
\* retention
\* ------------------------------------------------------------------------
\* notifications of an hour and a second ago and of an hour ago
OldNotifications ==
    [violation_timestamp : {1399, 1400}, processed : {0, 1}]

RetentionInit ==
    /\ SharedPoolInit
    /\ IngestAtRest
    /\ now = 5000
    /\ object_table = [m \in Macs |-> ObjectRow(MONITOR_GEO_FENCE)]
    /\ object_summary_table =
          [m \in Macs |->
             IF m = "m1"
             THEN [SummaryRow("u1") EXCEPT !.geofence_violation_timestamp = 5000]
             ELSE SummaryRow("u1")]
    /\ tracking_table = <<TrackingRow("m1", "u1", -60, 1399)>>
    /\ lbeacon_table = <<>>
    /\ monitor_config = <<>>
    /\ \E rows \in SeqsUpTo(OldNotifications, MaxOldNotifications) :
          notification_table =
             [k \in 1..Len(rows) |->
                [id |-> k, monitor_type |-> MONITOR_GEO_FENCE,
                 mac_address |-> "m2", uuid |-> "u1",
                 violation_timestamp |-> rows[k].violation_timestamp,
                 processed |-> rows[k].processed]]
    \* the job has run its identifiers and is about to collect
    /\ hrun = [HIdle([t0 |-> 5000, time_interval_in_sec |-> 3,
                      granularity |-> 2]) EXCEPT !.step = 5, !.start = 5000]
    /\ drain = DrainIdle
    /\ recv = RecvIdle
    /\ summ = SummIdle
    /\ reg = RegIdle
    /\ maint = MaintIdle

RetentionNext ==
    \/ \E monitor_type \in MonitorTypes, sql_ok \in BOOLEAN :
          SQL_collect_violation_events(monitor_type,
                                       hrun.cfg.time_interval_in_sec,
                                       hrun.cfg.granularity, sql_ok)
    \/ \E buf_len \in {22, 100}, sql_ok \in BOOLEAN : DrainCall(buf_len, sql_ok)
    \/ \E sql_ok \in BOOLEAN : DrainRow(sql_ok)
    \/ DrainReturn
    \/ \E retention_hours \in {0, 1}, sql_ok \in BOOLEAN, tsdb_ok \in BOOLEAN :
          SQL_delete_old_data(retention_hours, sql_ok, tsdb_ok)
    \/ Tick

SpecRetention == RetentionInit /\ [][RetentionNext]_vars

\* ------------------------------------------------------------------------
\* The maintenance calls on a pool of one connection, which another
\* operation takes and returns
\* ------------------------------------------------------------------------
MaintenanceNext ==
    \/ \E retention_hours \in {0, 1}, sql_ok \in BOOLEAN, tsdb_ok \in BOOLEAN :
          SQL_delete_old_data(retention_hours, sql_ok, tsdb_ok)
    \/ \E fail \in 0..Len(table_name) : SQL_vacuum_database(fail)
    \/ OtherGet
    \/ OtherRelease
    \/ Tick

SpecMaintenance == RetentionInit /\ [][MaintenanceNext]_vars

\* ------------------------------------------------------------------------
\* One caller that runs the ingest and the drain one after the other on a
\* pool of one connection, which another operation takes and returns
\* ------------------------------------------------------------------------
ConnectionsInit ==
    /\ SharedPoolInit
    /\ IngestAtRest
    /\ now = 1005
    /\ object_table = [m \in Macs |-> ObjectRow(IF m = "m1" THEN MONITOR_PANIC ELSE 0)]
    /\ object_summary_table = [m \in Macs |-> SummaryRow("u1")]
    /\ tracking_table = <<>>
    /\ lbeacon_table = <<>>
    /\ monitor_config = <<>>
    /\ notification_table = <<Notification(1, [uuid |-> "u1", processed |-> 0])>>
    /\ hrun = HIdle(NoConfig)
    /\ drain = DrainIdle
    /\ recv = RecvIdle
    /\ summ = SummIdle
    /\ reg = RegIdle
    /\ maint = MaintIdle

\* reports of one block with at most one record
ShortReports == {rep \in Reports : rep.c2 = "0" /\ rep.r2 = <<>> /\ Len(rep.r1) <= 1}

IngestAtReturn == ing.pc \in {"idle", "done"}
DrainAtReturn == drain.pc \in {"idle", "done"}

ConnectionsNext ==
    \/ /\ DrainAtReturn
       /\ \/ \E rep \in ShortReports, fopen_ok \in BOOLEAN :
                IngestCall(Payload(rep), rep, fopen_ok, 1)
          \/ IngestTypes
          \/ IngestRecord
          \/ IngestPanicGet
          \/ \E sql_ok \in BOOLEAN : IngestPanicExec(sql_ok)
          \/ IngestPanicRelease
          \/ IngestWrite
          \/ IngestCopyGet
          \/ \E sql_ok \in BOOLEAN : IngestCopyExec(sql_ok)
          \/ IngestCopyRelease
    \/ /\ IngestAtReturn
       /\ \/ \E buf_len \in {0, 100}, sql_ok \in BOOLEAN : DrainCall(buf_len, sql_ok)
          \/ \E sql_ok \in BOOLEAN : DrainRow(sql_ok)
          \/ DrainReturn
    \/ OtherGet
    \/ OtherRelease

SpecConnections == ConnectionsInit /\ [][ConnectionsNext]_vars

\* A pool of which some connections are held by operations that do not step
\* here; the scan of a thread that has the lock is scheduled.
BusyInit ==
    /\ \E n \in 1..MaxPool :
          /\ max_connection = n
          /\ lnext = CreatePool(n).list.nx
          /\ lprev = CreatePool(n).list.pv
          /\ \E used \in SUBSET DOMAIN CreatePool(n).entry :
                entry = [e \in DOMAIN CreatePool(n).entry |->
                           [CreatePool(n).entry[e] EXCEPT
                              !.is_used = IF e \in used THEN 1 ELSE 0]]
    /\ pool_created = TRUE
    /\ list_lock = 0
    /\ pc = [t \in Threads |-> "idle"]
    /\ cur = [t \in Threads |-> HEAD]
    /\ retry_times = [t \in Threads |-> 0]
    /\ db_serial_id = [t \in Threads |-> -1]
    /\ db_conn = [t \in Threads |-> 0]
    /\ holds = [t \in Threads |-> {}]
    /\ now = 0
    /\ object_table = <<>>
    /\ object_summary_table = <<>>
    /\ tracking_table = <<>>
    /\ IngestAtRest
    /\ lbeacon_table = <<>>
    /\ monitor_config = <<>>
    /\ notification_table = <<>>
    /\ hrun = HIdle(NoConfig)
    /\ drain = DrainIdle
    /\ recv = RecvIdle
    /\ summ = SummIdle
    /\ reg = RegIdle
    /\ maint = MaintIdle

BusyNext ==
    \/ \E t \in Threads : GetCall(t)
    \/ \E t \in Threads : GetRetry(t)
    \/ \E t \in Threads : GetLock(t)
    \/ \E t \in Threads : GetScan(t)
    \/ \E t \in Threads : GetTake(t)
    \/ \E t \in Threads : GetUnlockHit(t)
    \/ \E t \in Threads : GetUnlockMiss(t)
    \/ \E t \in Threads : ReleaseCall(t)
    \/ \E t \in Threads : ReleaseLock(t)
    \/ \E t \in Threads : ReleaseScan(t)
    \/ \E t \in Threads : ReleaseUnlock(t)

SpecBusy ==
    BusyInit /\ [][BusyNext]_vars /\ \A t \in Threads : WF_vars(GetScan(t))

\* A pool of one or two free connections; operations take and return them
\* while the pool is destroyed.
DestroyInit ==
    /\ \E n \in 1..NumThreads :
          /\ max_connection = n
          /\ entry = CreatePool(n).entry
          /\ lnext = CreatePool(n).list.nx
          /\ lprev = CreatePool(n).list.pv
    /\ pool_created = TRUE
    /\ list_lock = 0
    /\ pc = [t \in Threads |-> "idle"]
    /\ cur = [t \in Threads |-> HEAD]
    /\ retry_times = [t \in Threads |-> 0]
    /\ db_serial_id = [t \in Threads |-> -1]
    /\ db_conn = [t \in Threads |-> 0]
    /\ holds = [t \in Threads |-> {}]
    /\ now = 0
    /\ object_table = <<>>
    /\ object_summary_table = <<>>
    /\ tracking_table = <<>>
    /\ IngestAtRest
    /\ lbeacon_table = <<>>
    /\ monitor_config = <<>>
    /\ notification_table = <<>>
    /\ hrun = HIdle(NoConfig)
    /\ drain = DrainIdle
    /\ recv = RecvIdle
    /\ summ = SummIdle
    /\ reg = RegIdle
    /\ maint = MaintIdle

DestroyNext ==
    \/ BusyNext
    \/ SQL_destroy_database_connection_pool

SpecDestroy == DestroyInit /\ [][DestroyNext]_vars

\* ------------------------------------------------------------------------
\* The summarizer
\* ------------------------------------------------------------------------
\* the arguments of a summarizer pass
SummarizeArgs ==
    {[database_pre_filter_time_window_in_sec |-> 1,
      time_interval_in_sec |-> 3,
      rssi_difference_of_location_accuracy_tolerance |-> 6,
      base_location_tolerance_in_millimeter |-> 500]}

\* an object_summary_table row as it is before the first summarizer pass
FreshSummaryRow ==
    [rssi |-> NULLRSSI, battery_voltage |-> 0, is_location_updated |-> 0,
     base_x |-> NULLCOORD, base_y |-> NULLCOORD] @@ SummaryRow(NULL)

BeaconRow(x, y) ==
    [room |-> "r1", danger_area |-> 0, coordinate_x |-> x, coordinate_y |-> y]

\* the sightings that can arrive: beacon, rssi; seen from a second ago to now
SightingRows ==
    {[TrackingRow("m1", u, r, now) EXCEPT !.initial_timestamp = now - 1] :
        u \in {"u1", "u2"}, r \in {0 - 50, 0 - 99, 0 - 103}}

SummarizeInit ==
    /\ SharedPoolInit
    /\ IngestAtRest
    /\ now = 1000
    /\ object_table = ("m1" :> ObjectRow(0))
    /\ object_summary_table = ("m1" :> FreshSummaryRow)
    /\ tracking_table = <<>>
    /\ lbeacon_table = ("u1" :> BeaconRow(0, 0)) @@ ("u2" :> BeaconRow(1000, 0))
    /\ monitor_config = <<>>
    /\ notification_table = <<>>
    /\ hrun = HIdle([t0 |-> 1000])
    /\ drain = DrainIdle
    /\ recv = RecvIdle
    /\ summ = SummIdle
    /\ reg = RegIdle
    /\ maint = MaintIdle

SummarizeNext ==
    \/ \E args \in SummarizeArgs, sql_ok \in BOOLEAN : SummarizeCall(args, sql_ok)
    \/ \E sql_ok \in BOOLEAN : SummarizeStable(sql_ok)
    \/ \E sql_ok \in BOOLEAN : SummarizeMoving(sql_ok)
    \/ \E sql_ok \in BOOLEAN : SummarizeBase(sql_ok)
    \/ \E row \in SightingRows : SightingArrives(row)
    \/ Tick

SpecSummarize == SummarizeInit /\ [][SummarizeNext]_vars

\* the same, with sightings reported by a beacon that has not registered:
\* the ingest copies every report into tracking_table
UnregisteredInit ==
    /\ SharedPoolInit
    /\ IngestAtRest
    /\ now = 1000
    /\ object_table = ("m1" :> ObjectRow(0))
    /\ object_summary_table = ("m1" :> FreshSummaryRow)
    /\ tracking_table = <<>>
    /\ lbeacon_table = ("u1" :> BeaconRow(0, 0))
    /\ monitor_config = <<>>
    /\ notification_table = <<>>
    /\ hrun = HIdle([t0 |-> 1000])
    /\ drain = DrainIdle
    /\ recv = RecvIdle
    /\ summ = SummIdle
    /\ reg = RegIdle
    /\ maint = MaintIdle

SpecUnregistered == UnregisteredInit /\ [][SummarizeNext]_vars

\* the same, after the first sighting of an object that has no row in
\* object_summary_table
FirstSightingInit ==
    /\ SharedPoolInit
    /\ IngestAtRest
    /\ now = 1000
    /\ object_table = ("m1" :> ObjectRow(0))
    /\ object_summary_table = <<>>
    \* the ingest has copied one sighting of m1
    /\ \E row \in SightingRows : tracking_table = <<row>>
    /\ lbeacon_table = ("u1" :> BeaconRow(0, 0)) @@ ("u2" :> BeaconRow(1000, 0))
    /\ monitor_config = <<>>
    /\ notification_table = <<>>
    /\ hrun = HIdle([t0 |-> 1000])
    /\ drain = DrainIdle
    /\ recv = RecvIdle
    /\ summ = SummIdle
    /\ reg = RegIdle
    /\ maint = MaintIdle

SpecFirstSighting == FirstSightingInit /\ [][SummarizeNext]_vars

RecvInit ==
    /\ PoolInit

RecvNext ==
    \/ \E type \in {"UDP", "NONE"} : udp_getrecv(type)
    \/ \E survives \in BOOLEAN : ReceiverAlloc(survives)
    \/ ReceiverWait
    \/ \E ok \in BOOLEAN : thpool_add_work(ok)
    \/ WorkerTake
    \/ \E job \in recv.running : process_geo_fence_routine(job)
    \/ ReceiverExit
    \/ geo_fence_free
    \/ udp_release
    \/ thpool_destroy
    \/ mp_destroy

SpecRecv == RecvInit /\ [][RecvNext]_vars


\* ========================================================================
\* Claims about the connection pool (checked under Spec)
\* ========================================================================
PoolCallInProgress(t) == pc[t] \notin {"idle", "hold"}
Quiescent == \A t \in Threads : ~PoolCallInProgress(t)
PoolEntries == {ListNodes[k] : k \in 1..Len(ListNodes)}
InUse == {e \in PoolEntries : entry[e].is_used = 1}
Free == {e \in PoolEntries : entry[e].is_used = 0}

\* C1: a pooled connection is held by at most one operation at a time: the
\* serial ids acquired and not yet released by two different threads are
\* disjoint, the entry of a held serial id is marked in use, and no operation
\* holds more than one connection.
C1_ExclusiveConnection ==
    /\ \A t1, t2 \in Threads : t1 # t2 => holds[t1] \cap holds[t2] = {}
    /\ \A t \in Threads : Cardinality(holds[t]) <= 1
    /\ \A t \in Threads : \A s \in holds[t] :
          \E e \in PoolEntries : entry[e].serial_id = s /\ entry[e].is_used = 1

\* Two operations hold a connection each at the same time, after one of them
\* had to pass over the entry taken by the other.
C1_Witness ==
    \E t1, t2 \in Threads :
        /\ t1 # t2
        /\ pc[t1] = "hold" /\ pc[t2] = "hold"
        /\ holds[t1] # {} /\ holds[t2] # {}

\* C2: at every quiescent point of a pool created with size n, the entries
\* with is_used = 1 and those with is_used = 0 together number n.
C2_PoolSizeConserved ==
    (pool_created /\ Quiescent) =>
        Cardinality(InUse) + Cardinality(Free) = max_connection

\* ========================================================================
\* Claims about the tracking ingest (checked under SpecIngest)
\* ========================================================================
IngestReturned == ing.pc = "done"
ExpectedRows(rep, at) ==
    [k \in 1..(Len(rep.r1) + Len(rep.r2)) |-> ExpectedRow((rep.r1 \o rep.r2)[k], at)]
PanicStamped ==
    \E m \in DOMAIN object_summary_table :
        object_summary_table[m].panic_violation_timestamp # NULLTS

\* C3: when the ingest of a well-formed report declaring N sub-records has
\* returned WORK_SUCCESSFULLY, tracking_table holds exactly the N rows of its
\* sub-records, whatever happened to the inline panic stamps.
C3_ExactlyNRows ==
    (IngestReturned /\ ing.ret = WORK_SUCCESSFULLY /\ WellFormed(ing.report))
        => tracking_table = ExpectedRows(ing.report, ing.current_time)

\* ------------------------------------------------------------------------
\* Claims on the violation pipeline
\* ------------------------------------------------------------------------
Notified(k) == notification_table[k]

\* two notifications are about the same violation source: the monitor type,
\* the mac address and the uuid are equal (a NULL uuid equals nothing)
SameKey(a, b) ==
    /\ a.monitor_type = b.monitor_type
    /\ SqlEq(a.mac_address, b.mac_address)
    /\ SqlEq(a.uuid, b.uuid)

CollectSucceeded ==
    /\ hrun.step > 4
    /\ hrun'.step # hrun.step
    /\ hrun'.failures = hrun.failures

\* a notification of the monitor type for the same mac address and uuid as
\* the summary row of m lies inside the dedup window of its timestamp ts
NotifiedInWindow(m, monitor_type, ts) ==
    \E k \in 1..Len(notification_table) :
        /\ Notified(k).monitor_type = monitor_type
        /\ SqlEq(Notified(k).mac_address, m)
        /\ SqlEq(Notified(k).uuid, object_summary_table[m].uuid)
        /\ ts - Notified(k).violation_timestamp < hrun.cfg.granularity

Runs == hrun.hist
\* runs k-1 and k of the job both succeeded, with no sighting since run k-1 began
QuietPair(k) ==
    /\ Runs[k - 1].ok /\ Runs[k].ok
    /\ Runs[k - 1].quiet /\ Runs[k].quiet
\* the notifications run k inserted
InsertedBy(k) == (Runs[k - 1].len + 1)..Runs[k].len

DrainReturned == drain.pc = "done" /\ drain.ret = WORK_SUCCESSFULLY
Ids(s) == {s[k] : k \in 1..Len(s)}
Processed(id) ==
    \E k \in 1..Len(notification_table) :
        Notified(k).id = id /\ Notified(k).processed = 1

\* C7: when the drain has returned, the rows it appended to the buffer are
\* the rows whose processed flag it set, and no notification has been
\* appended twice, in this call or an earlier one.
C7_AppendedIffProcessed ==
    DrainReturned =>
        /\ \A k \in 1..Len(drain.res) :
              drain.res[k].id \in Ids(drain.appended)
                 <=> Processed(drain.res[k].id)
        /\ \A i, j \in 1..Len(drain.delivered) :
              i # j => drain.delivered[i] # drain.delivered[j]

\* C8: when the drain has returned, the records in the buffer are those of
\* a prefix, in id order, of the rows that were unprocessed at the call:
\* no row after the first that did not fit was appended.
C8_EmittedIsPrefix ==
    DrainReturned =>
        \E j \in 0..Len(drain.res) :
            drain.appended = [k \in 1..j |-> drain.res[k].id]

\* ------------------------------------------------------------------------
\* Claims on the ingest, continued
\* ------------------------------------------------------------------------
\* the report is cut short (no timestamp, no object count, an incomplete
\* last record) or declares more sub-records than it holds
ParserFailure(rep) ==
    \/ rep.cut < Len(FullPayload(rep))
    \/ atoi(rep.c1) > Len(rep.r1)
    \/ atoi(rep.c2) > Len(rep.r2)

\* C9: when the ingest of a report with a parser failure has returned (the
\* temporary file having been opened), it returned E_API_PROTOCOL_FORMAT,
\* stamped no panic_violation_timestamp and loaded no row.
C9_ParserFailureEmitsNothing ==
    (IngestReturned /\ ing.ret # E_OPEN_FILE /\ ParserFailure(ing.report))
        => /\ ing.ret = E_API_PROTOCOL_FORMAT
           /\ ~PanicStamped
           /\ tracking_table = <<>>

\* ------------------------------------------------------------------------
\* Claims on the receiver
\* ------------------------------------------------------------------------
SubmissionsOf(p) ==
    {k \in 1..Len(recv.submissions) : recv.submissions[k].pkt = p}

\* C10: every UDP packet received so far is in the receiver's hands, in a
\* slot of the packet pool, waiting for a free worker, or has been passed to
\* thpool_add_work exactly once, in its slot, after the receiver had
\* observed num_threads_working < num_threads_alive. (While the server runs:
\* before geo_fence_free is called.)
C10_NeverDropsNorSubmitsSaturated ==
    recv.free_pc = "none" => \A p \in 1..recv.received :
        \/ /\ recv.pkt = p
           /\ recv.pc \in {"alloc", "wait", "submit"}
           /\ recv.pc # "alloc" => recv.pkt_content # 0
           /\ SubmissionsOf(p) = {}
        \/ /\ recv.pkt # p
           /\ Cardinality(SubmissionsOf(p)) = 1
           /\ \A k \in SubmissionsOf(p) :
                 /\ recv.submissions[k].content # 0
                 /\ recv.submissions[k].observed

\* the packets in flight: the one in the receiver's hands in a slot, the
\* jobs in the FIFO and the jobs the workers are running
InFlight ==
    (IF recv.pkt_content # 0 THEN 1 ELSE 0)
        + Len(recv.queue) + Cardinality(recv.running)
AllocatedSlots == SLOTS_IN_MEM_POOL - recv.free_slots

\* C11: whenever the receiver is between two packets, the number of slots
\* taken from the packet pool equals the number of packets still in flight:
\* a slot goes back to the pool when its submission fails or when the
\* worker has finished with it.
C11_SlotsReturned ==
    recv.pc = "recv" => AllocatedSlots = InFlight

\* C12: the receiver calls neither mp_alloc on the packet pool nor
\* thpool_add_work once geo_fence_free has destroyed the worker pool or the
\* packet pool.
C12_NoCallAfterTeardown == recv.late = {}

GeoFenceFreeReturned == recv.free_pc = "done"

\* C13: geo_fence_free destroys the worker pool, then releases the UDP
\* socket, then tears down every memory pool geo_fence_initial created.
C13_ShutdownOrder ==
    GeoFenceFreeReturned =>
        /\ Len(recv.teardown) = 2 + Cardinality(MemPools)
        /\ recv.teardown[1] = "thpool_destroy"
        /\ recv.teardown[2] = "udp_release"
        /\ recv.pools = {}

\* C14: for every record the routine has handled that came from a fence
\* beacon with rssi >= decision_threshold, first sighting of its pair,
\* SQL_identify_geofence_violation was invoked for its mac address.
C14_QualifyingSightingIdentified ==
    \A mac \in recv.qualified : mac \in recv.identify_calls

\* C15: after SQL_summarize_object_location has completed, every
\* object_summary_table row the pass updated (is_location_updated = 1) has
\* first_seen_timestamp <= last_seen_timestamp and rssi > -100.
C15_UpdatedRowsInRange ==
    (summ.pc = "done" /\ summ.ret = WORK_SUCCESSFULLY) =>
        \A m \in DOMAIN object_summary_table :
            object_summary_table[m].is_location_updated = 1 =>
                /\ object_summary_table[m].first_seen_timestamp
                      <= object_summary_table[m].last_seen_timestamp
                /\ object_summary_table[m].rssi > 0 - 100

\* the beacons of an object with sightings in the window whose average rssi
\* is above -100, and of those the ones with the strongest rounded average
C16_InWindow(m, u) ==
    {k \in 1..Len(tracking_table) :
        /\ tracking_table[k].object_mac_address = m
        /\ tracking_table[k].lbeacon_uuid = u
        /\ tracking_table[k].final_timestamp
              >= now - summ.args.database_pre_filter_time_window_in_sec
        /\ tracking_table[k].final_timestamp
              >= now - tracking_table[k].server_time_offset
                     - summ.args.time_interval_in_sec}
C16_Heard(m) ==
    {u \in {tracking_table[k].lbeacon_uuid : k \in 1..Len(tracking_table)} :
        /\ C16_InWindow(m, u) # {}
        /\ SumRssi(C16_InWindow(m, u)) > (0 - 100) * Cardinality(C16_InWindow(m, u))}
C16_Strongest(m) ==
    {u \in C16_Heard(m) : \A v \in C16_Heard(m) :
        RoundAvgRssi(C16_InWindow(m, u)) >= RoundAvgRssi(C16_InWindow(m, v))}
C16_Earliest(m, u) ==
    CHOOSE t \in {tracking_table[k].initial_timestamp : k \in C16_InWindow(m, u)} :
        \A k \in C16_InWindow(m, u) : t <= tracking_table[k].initial_timestamp

C17_Recent(m, u) ==
    {k \in 1..Len(tracking_table) :
        /\ tracking_table[k].object_mac_address = m
        /\ tracking_table[k].lbeacon_uuid = u
        /\ tracking_table[k].final_timestamp
              > now - summ.args.database_pre_filter_time_window_in_sec
        /\ tracking_table[k].final_timestamp
              >= now - tracking_table[k].server_time_offset
                     - summ.args.time_interval_in_sec}
C17_Latest(ks) ==
    CHOOSE t \in {tracking_table[k].final_timestamp : k \in ks} :
        \A k \in ks : t >= tracking_table[k].final_timestamp
C17_Weakest(ks) ==
    CHOOSE v \in {tracking_table[k].battery_voltage : k \in ks} :
        \A k \in ks : v <= tracking_table[k].battery_voltage
C17_Tolerance == summ.args.rssi_difference_of_location_accuracy_tolerance

\* C17 as stated: a successful stable-tag step marks every object updated,
\* at its beacon and with its first_seen_timestamp, whose stored summary rssi
\* differs from the strongest-beacon average of the window by less than the
\* tolerance.
C17_StoredRssiStable ==
    [][(summ.pc = "stable" /\ summ'.pc = "moving") =>
         \A m \in DOMAIN object_summary_table :
            LET old == object_summary_table[m]
                new == object_summary_table'[m]
            IN (/\ old.rssi # NULLRSSI
                /\ \E b \in C16_Strongest(m) :
                      Abs(old.rssi - RoundAvgRssi(C16_InWindow(m, b)))
                         < C17_Tolerance)
               => /\ new.uuid = old.uuid
                  /\ new.first_seen_timestamp = old.first_seen_timestamp
                  /\ new.is_location_updated = 1]_vars

\* C17, as the code has it: a successful stable-tag step updates exactly the
\* objects with a uuid whose sightings at that beacon, newer than the
\* pre-filter window, have a rounded average rssi that differs from the
\* strongest-beacon rounded average by less than the tolerance. Such an
\* object keeps uuid and first_seen_timestamp, gets rssi, last_seen_timestamp
\* and battery_voltage from those sightings and is_location_updated = 1; and
\* a successful moving-tag step leaves every row marked updated as it is.
C17_StableStep ==
    [][/\ (summ.pc = "stable" /\ summ'.pc = "moving") =>
            \A m \in DOMAIN object_summary_table :
               LET old == object_summary_table[m]
                   new == object_summary_table'[m]
                   own == C17_Recent(m, old.uuid)
               IN IF /\ old.uuid # NULL
                     /\ own # {}
                     /\ \E b \in C16_Strongest(m) :
                           Abs(RoundAvgRssi(own)
                                  - RoundAvgRssi(C16_InWindow(m, b)))
                              < C17_Tolerance
                  THEN new = [old EXCEPT
                                 !.rssi = RoundAvgRssi(own),
                                 !.last_seen_timestamp = C17_Latest(own),
                                 !.battery_voltage = C17_Weakest(own),
                                 !.is_location_updated = 1]
                  ELSE new = old
       /\ (summ.pc = "moving" /\ summ'.pc = "base") =>
            \A m \in DOMAIN object_summary_table :
               object_summary_table[m].is_location_updated = 1
                  => object_summary_table'[m] = object_summary_table[m]]_vars

\* the stable-tag step has updated an object and the moving-tag step that
\* followed has passed it by
C17_Witness ==
    /\ summ.pc = "base"
    /\ "m1" \in summ.stable
    /\ "m1" \notin DOMAIN summ.moved
    /\ object_summary_table["m1"].is_location_updated = 1
    /\ object_summary_table["m1"].uuid # NULL

\* the local time a reload reads, and the statements of it that have run
C18_Time == (now + hrun.cfg.offset * 3600) % 86400
C18_ReloadStep == hrun.step = 1 /\ hrun'.step = 2
C18_Touched(name) ==
    monitor_config'[name] # monitor_config[name] \/ hrun'.ok

\* C18 as stated: a rule row that SQL_reload_monitor_config updates gets
\* is_active = 1 iff enable = 1 and the local time lies in the closed window
\* [start_time, end_time], which for start_time > end_time is
\* [start_time, 23:59:59] with [00:00:00, end_time]; a reload that returns
\* WORK_SUCCESSFULLY has updated every row.
C18_ClosedWindow ==
    [][C18_ReloadStep =>
         \A name \in DOMAIN monitor_config :
            LET row == monitor_config[name]
                inside == IF row.start_time <= row.end_time
                          THEN row.start_time <= C18_Time
                                  /\ C18_Time <= row.end_time
                          ELSE C18_Time >= row.start_time
                                  \/ C18_Time <= row.end_time
            IN C18_Touched(name) =>
                  (monitor_config'[name].is_active = 1
                      <=> (row.enable = 1 /\ inside))]_vars

\* C18, as the code has it: the window excludes end_time. A row gets
\* is_active = 1 iff enable = 1 and start_time <= t < end_time, or, for
\* start_time > end_time, t >= start_time (up to 23:59:59) or t < end_time;
\* with start_time = end_time it gets 0. Nothing else of the row changes, and
\* a reload that returns WORK_SUCCESSFULLY has updated every row.
C18_HalfOpenWindow ==
    [][C18_ReloadStep =>
         \A name \in DOMAIN monitor_config :
            LET row == monitor_config[name]
                inside == IF row.start_time < row.end_time
                          THEN row.start_time <= C18_Time
                                  /\ C18_Time < row.end_time
                          ELSE /\ row.start_time > row.end_time
                               /\ \/ C18_Time >= row.start_time
                                  \/ C18_Time < row.end_time
                set == [row EXCEPT !.is_active =
                           IF row.enable = 1 /\ inside THEN 1 ELSE 0]
            IN /\ monitor_config'[name] \in {row, set}
               /\ hrun'.ok => monitor_config'[name] = set]_vars

\* a reload just after midnight has made active a rule whose window wraps,
\* and left inactive a disabled rule with the same window
C18_Witness ==
    /\ hrun.step = 2
    /\ hrun.ok
    /\ C18_Time = 0
    /\ \E a, b \in DOMAIN monitor_config :
          /\ monitor_config[a].start_time > monitor_config[a].end_time
          /\ monitor_config[a].enable = 1
          /\ monitor_config[a].is_active = 1
          /\ monitor_config[b].start_time = monitor_config[a].start_time
          /\ monitor_config[b].end_time = monitor_config[a].end_time
          /\ monitor_config[b].enable = 0
          /\ monitor_config[b].is_active = 0

\* the objects C19 names: LOCATION bit set, the long-stay rule of the area
\* active, the current beacon in a danger area, and a dwell of more whole
\* minutes than stay_duration
C19_LongStay(m) ==
    LET rule == monitor_config["location_long_stay_in_danger_config"]
        row == object_summary_table[m]
    IN /\ m \in DOMAIN object_table
       /\ object_table[m].monitor_type \div MONITOR_LOCATION % 2 = 1
       /\ object_table[m].area_id = rule.area_id
       /\ rule.is_active = 1
       /\ row.uuid \in DOMAIN lbeacon_table
       /\ lbeacon_table[row.uuid].danger_area = 1
       /\ row.first_seen_timestamp # NULLTS
       /\ row.last_seen_timestamp # NULLTS
       /\ (row.last_seen_timestamp - row.first_seen_timestamp) \div 60
             > rule.stay_duration

\* C19: a successful SQL_identify_location_long_stay_in_danger stamps
\* location_violation_timestamp = NOW() on every object whose LOCATION bit is
\* set, whose area's long-stay rule is active, whose beacon is in a danger
\* area and whose total dwell exceeds stay_duration, dwells of an hour and
\* more included; and it changes no other object.
C19_LongStayStamped ==
    [][(hrun.step = 3 /\ hrun'.step = 4 /\ hrun'.failures = hrun.failures) =>
         \A m \in DOMAIN object_summary_table :
            IF C19_LongStay(m)
            THEN object_summary_table'[m] =
                    [object_summary_table[m] EXCEPT
                        !.location_violation_timestamp = now]
            ELSE object_summary_table'[m] = object_summary_table[m]]_vars

\* the time slots of the interval in which an object was heard at its
\* current beacon, and whether the average rssi of two populated slots next
\* to each other differs by more than rssi_delta
C20_Heard(m, slot) ==
    {k \in 1..Len(tracking_table) :
        /\ tracking_table[k].object_mac_address = m
        /\ tracking_table[k].lbeacon_uuid = object_summary_table[m].uuid
        /\ tracking_table[k].final_timestamp
              > now - hrun.cfg.time_interval_in_min * 60
        /\ tracking_table[k].final_timestamp
              \div (hrun.cfg.each_time_slot_in_min * 60) = slot}
C20_Slots(m) ==
    {slot \in 0..(now \div (hrun.cfg.each_time_slot_in_min * 60)) :
        C20_Heard(m, slot) # {}}
C20_Moved(m) ==
    \E p, s \in C20_Slots(m) :
        /\ p < s
        /\ \A q \in C20_Slots(m) : ~(p < q /\ q < s)
        /\ LET d == SumRssi(C20_Heard(m, s)) * Cardinality(C20_Heard(m, p))
                       - SumRssi(C20_Heard(m, p)) * Cardinality(C20_Heard(m, s))
               n == Cardinality(C20_Heard(m, s)) * Cardinality(C20_Heard(m, p))
           IN d > hrun.cfg.rssi_delta * n \/ d < (0 - hrun.cfg.rssi_delta) * n
C20_Monitored(m) ==
    /\ m \in DOMAIN object_table
    /\ object_table[m].monitor_type \div MONITOR_MOVEMENT % 2 = 1
    /\ object_table[m].area_id = monitor_config["movement_config"].area_id
    /\ monitor_config["movement_config"].is_active = 1
C20_Stamped(m) ==
    object_summary_table'[m] =
        [object_summary_table[m] EXCEPT !.movement_violation_timestamp = now]
C20_Succeeds ==
    hrun.step = 4 /\ hrun'.step = 5 /\ hrun'.failures = hrun.failures

\* C20 as stated: a successful SQL_identify_last_movement_status stamps
\* movement_violation_timestamp of a movement-monitored object with an
\* active area rule exactly when no two adjacent time slots differ in average
\* rssi by more than rssi_delta, objects with fewer than two populated slots
\* included.
C20_StampedIffStatic ==
    [][C20_Succeeds =>
         \A m \in DOMAIN object_summary_table :
            C20_Monitored(m) =>
               IF C20_Moved(m)
               THEN object_summary_table'[m] = object_summary_table[m]
               ELSE C20_Stamped(m)]_vars

\* C20, as the code has it: the same for the objects that have a uuid; an
\* object without uuid is never stamped, and neither is one that is not
\* monitored or whose rule is not active.
C20_StampedIffStaticAtBeacon ==
    [][C20_Succeeds =>
         \A m \in DOMAIN object_summary_table :
            IF /\ C20_Monitored(m)
               /\ object_summary_table[m].uuid # NULL
               /\ ~C20_Moved(m)
            THEN C20_Stamped(m)
            ELSE object_summary_table'[m] = object_summary_table[m]]_vars

\* the loop has stamped an object that was heard in two time slots with
\* averages no more than rssi_delta apart, one of them over two sightings
C20_Witness ==
    /\ hrun.step = 5
    /\ hrun.failures = 0
    /\ object_summary_table["m1"].movement_violation_timestamp = now
    /\ Cardinality(C20_Slots("m1")) >= 2
    /\ \E s \in C20_Slots("m1") : Cardinality(C20_Heard("m1", s)) = 2
    /\ ~C20_Moved("m1")


\* the keys a registration report names: its ip addresses, or its uuids
C21_Keys(h) ==
    IF h.op = "gateway" THEN {h.buf[i] : i \in 2..Len(h.buf)}
    ELSE {h.buf[i] : i \in {j \in 3..Len(h.buf) : j % 3 = 0}}

C21_Table(h) == IF h.op = "gateway" THEN h.gateway_table ELSE h.lbeacon_table

\* the same report applied twice in a row, both times with success
C21_Twice(k) ==
    /\ k + 1 \in DOMAIN reg.hist
    /\ reg.hist[k].op = reg.hist[k + 1].op
    /\ reg.hist[k].buf = reg.hist[k + 1].buf
    /\ reg.hist[k].ret = WORK_SUCCESSFULLY
    /\ reg.hist[k + 1].ret = WORK_SUCCESSFULLY

\* the second application leaves the rows of the first, only with the
\* last_report_timestamp of the rows it names set to its own time
C21_OnlyReportTimeAdvances(first, second) ==
    /\ DOMAIN C21_Table(second) = DOMAIN C21_Table(first)
    /\ \A key \in DOMAIN C21_Table(first) :
          LET old == C21_Table(first)[key]
              new == C21_Table(second)[key]
          IN /\ [new EXCEPT !.last_report_timestamp =
                                old.last_report_timestamp] = old
             /\ key \in C21_Keys(second)
                   => /\ new.last_report_timestamp = second.at
                      /\ new.last_report_timestamp >= old.last_report_timestamp

\* C21: registration is an idempotent upsert: a gateway report, or a beacon
\* report received through the same gateway address, applied twice leaves
\* one row per ip_address or uuid; the second application sets
\* last_report_timestamp to its own time and leaves every other column,
\* registered_timestamp included, as the first left it.
C21_IdempotentUpsert ==
    \A k \in DOMAIN reg.hist :
       (/\ C21_Twice(k)
        /\ reg.hist[k].gateway_ip_address = reg.hist[k + 1].gateway_ip_address)
          => C21_OnlyReportTimeAdvances(reg.hist[k], reg.hist[k + 1])

\* C21 as stated: the same report applied twice, whatever gateway address
\* each application was received through
C21_IdempotentForAnyGateway ==
    \A k \in DOMAIN reg.hist :
       C21_Twice(k) => C21_OnlyReportTimeAdvances(reg.hist[k], reg.hist[k + 1])

\* a report applied again at a later time to a row it had created
C21_Witness ==
    \E k \in DOMAIN reg.hist :
       /\ C21_Twice(k)
       /\ reg.hist[k].gateway_ip_address = reg.hist[k + 1].gateway_ip_address
       /\ reg.hist[k].at < reg.hist[k + 1].at
       /\ C21_Keys(reg.hist[k + 1]) \cap DOMAIN C21_Table(reg.hist[k + 1]) # {}


C22_DecimalDigits == <<"0", "1", "2", "3", "4", "5", "6", "7", "8", "9">>

C22_IsDecimal(str) ==
    \A i \in DOMAIN str : \E d \in DOMAIN C22_DecimalDigits :
       str[i] = C22_DecimalDigits[d]

\* the number a string of decimal digits writes
RECURSIVE C22_Value(_)
C22_Value(str) ==
    IF str = <<>> THEN 0
    ELSE 10 * C22_Value(SubSeq(str, 1, Len(str) - 1))
            + (CHOOSE d \in 0..9 : C22_DecimalDigits[d + 1] = str[Len(str)])

\* a number of at most width digits written with width zero-padded digits
RECURSIVE C22_Format(_, _)
C22_Format(n, width) ==
    IF width = 0 THEN <<>>
    ELSE Append(C22_Format(n \div 10, width - 1), C22_DecimalDigits[(n % 10) + 1])

C22_Substr(uuid, offset) == SubSeq(uuid, offset + 1, offset + 8)

\* a uuid of the beacon format: 8 decimal digits at [12,20) and at [24,32)
C22_BeaconFormat(uuid) ==
    /\ Len(uuid) >= 32
    /\ C22_IsDecimal(C22_Substr(uuid, 12))
    /\ C22_IsDecimal(C22_Substr(uuid, 24))

\* C22: for every beacon uuid registered through
\* SQL_update_lbeacon_registration_status, the stored coordinate_x is the
\* decimal value of the 8 characters at uuid offsets [12,20) and
\* coordinate_y that of the 8 characters at [24,32): the stored value
\* written as 8 zero-padded digits gives back those characters.
C22_CoordinatesRoundTrip ==
    \A uuid \in DOMAIN lbeacon_table :
       C22_BeaconFormat(uuid) =>
          /\ lbeacon_table[uuid].coordinate_x = C22_Value(C22_Substr(uuid, 12))
          /\ lbeacon_table[uuid].coordinate_y = C22_Value(C22_Substr(uuid, 24))
          /\ C22_Format(lbeacon_table[uuid].coordinate_x, 8) = C22_Substr(uuid, 12)
          /\ C22_Format(lbeacon_table[uuid].coordinate_y, 8) = C22_Substr(uuid, 24)

\* a beacon registered with the coordinates 1234 and 5678 in its uuid
C22_Witness ==
    \E uuid \in DOMAIN lbeacon_table :
       /\ C22_BeaconFormat(uuid)
       /\ lbeacon_table[uuid].coordinate_x = 1234
       /\ lbeacon_table[uuid].coordinate_y = 5678


C23_Ids(table) == {table[k].id : k \in DOMAIN table}
C23_Row(table, id) == table[CHOOSE k \in DOMAIN table : table[k].id = id]

\* in this step a notification goes, or its processed flag goes back to 0
C23_Removes ==
    \E id \in C23_Ids(notification_table) : id \notin C23_Ids(notification_table')
C23_Resets ==
    \E id \in C23_Ids(notification_table) \cap C23_Ids(notification_table') :
       C23_Row(notification_table', id).processed
          < C23_Row(notification_table, id).processed

\* C23: the processed flag of a notification row only ever changes from 0
\* to 1, and a notification row is removed only by SQL_delete_old_data: no
\* other operation deletes a notification or resets processed to 0, and a
\* row that stays keeps every other column.
C23_ProcessedOnlySetRowsOnlyExpire ==
    [][/\ ~C23_Resets
       /\ \A id \in C23_Ids(notification_table) \cap C23_Ids(notification_table') :
             [C23_Row(notification_table', id) EXCEPT !.processed = 0]
                = [C23_Row(notification_table, id) EXCEPT !.processed = 0]
       /\ C23_Removes =>
             \E retention_hours \in {0, 1} :
                /\ SQL_delete_old_data(retention_hours, TRUE, TRUE)
                     \/ SQL_delete_old_data(retention_hours, TRUE, FALSE)
                /\ \A id \in C23_Ids(notification_table) :
                      id \notin C23_Ids(notification_table') =>
                         C23_Row(notification_table, id).violation_timestamp
                            < now - SecondsOfHours(retention_hours)]_vars

\* a notification the drain has delivered and marked, and the retention has
\* then removed, while one inserted by the job is still there
C23_Witness ==
    /\ \E k \in DOMAIN drain.delivered :
          drain.delivered[k] \notin C23_Ids(notification_table)
    /\ \E k \in DOMAIN notification_table :
          /\ notification_table[k].mac_address = "m1"
          /\ notification_table[k].processed = 1


\* C24: whenever the summarizer assigns a uuid to an object_summary row, that
\* uuid is the uuid of a row of lbeacon_table at the time of the assignment:
\* sightings reported by an unregistered beacon never become an object's
\* current location.
C24_AssignedBeaconRegistered ==
    [][\A m \in DOMAIN object_summary_table :
          object_summary_table'[m].uuid # object_summary_table[m].uuid
             => object_summary_table'[m].uuid \in DOMAIN lbeacon_table]_vars


C26_NoOperationInProgress ==
    /\ IngestAtReturn
    /\ DrainAtReturn
    /\ pc[OtherThread] = "idle"

C26_ReleasedOnce ==
    [][\A e \in PoolEntries :
          (entry[e].is_used = 1 /\ entry'[e].is_used = 0)
             => \E t \in Threads :
                   /\ entry[e].serial_id \in holds[t]
                   /\ entry[e].serial_id \notin holds'[t]]_vars

C27_StampOnlyWithPanicBit ==
    [][\A m \in DOMAIN object_summary_table :
          object_summary_table'[m].panic_violation_timestamp
                # object_summary_table[m].panic_violation_timestamp
             => /\ m \in DOMAIN object_table
                /\ BitAnd(object_table[m].monitor_type, MONITOR_PANIC)
                      = MONITOR_PANIC]_vars


\* C28: the inline panic stamp of the ingest is executed for a sub-record only
\* if its panic field is 1 and is_enabled_panic_monitoring is enabled: with
\* panic monitoring disabled the ingest writes no panic_violation_timestamp.
C28_StampOnlyWhenEnabled ==
    [][\A m \in DOMAIN object_summary_table :
          object_summary_table'[m].panic_violation_timestamp
                # object_summary_table[m].panic_violation_timestamp
             => /\ ing.is_enabled_panic_monitoring # 0
                /\ ing.panic_button # NULL
                /\ atoi(ing.panic_button) = 1]_vars


\* C29: the temporary CSV file the ingest has opened is removed before the
\* function returns, on every outcome after a successful open: successful
\* COPY, failed COPY, parser failure, and no connection for the COPY.
C29_TempFileRemoved ==
    (ing.pc = "done" /\ ing.ret # E_OPEN_FILE) => ~file_exists


\* C30: SQL_summarize_object_location runs the reset, the stable-tag, the
\* moving-tag and the base-coordinate update in that order on one
\* connection, and a failure of any one of them, the reset of
\* is_location_updated included, makes it release the connection and return
\* an error without executing a later step: it goes on to a next statement,
\* holding the connection, only after a statement that succeeded.
C30_FailureEndsPass ==
    /\ summ.pc \in {"stable", "moving", "base"} =>
          /\ summ.ret_val = WORK_SUCCESSFULLY
          /\ holds[IngestThread] # {}
    /\ summ.pc = "done" => holds[IngestThread] = {}
    /\ (summ.pc = "done" /\ summ.ret # WORK_SUCCESSFULLY) =>
          summ.ret \in {E_SQL_OPEN_DATABASE, E_SQL_EXECUTE}


\* the beacon uuids of the model in lexicographic order
C31_UuidsAscending == <<"u1", "u2">>
C31_LowestUuid(S) ==
    C31_UuidsAscending[CHOOSE i \in DOMAIN C31_UuidsAscending :
        /\ C31_UuidsAscending[i] \in S
        /\ \A j \in DOMAIN C31_UuidsAscending :
              C31_UuidsAscending[j] \in S => i <= j]

\* C31: when two or more beacons have the same strongest rounded average
\* RSSI for an object in the summarization window, the beacon the
\* moving-tag step makes the object's current beacon is the one with the
\* lexicographically lowest uuid.
C31_LowestUuidWins ==
    [][\A m \in DOMAIN object_summary_table :
          (/\ summ.pc = "moving"
           /\ summ'.pc = "base"
           /\ m \in MovingRows)
             => object_summary_table'[m].uuid = C31_LowestUuid(BestBeacons(m))]_vars


C32_Distance(a, b) == IF a >= b THEN a - b ELSE b - a

\* C32: the base-coordinate step changes base_x and base_y of an object only
\* when the stored base_x or base_y is NULL or the newly computed value
\* differs from the stored one by at least
\* base_location_tolerance_in_millimeter on some axis; otherwise both stored
\* coordinates are left unchanged.
C32_BaseHysteresis ==
    [][\A m \in DOMAIN object_summary_table :
          LET old == object_summary_table[m]
              new == object_summary_table'[m]
          IN (new.base_x # old.base_x \/ new.base_y # old.base_y)
                => /\ summ.pc = "base"
                   /\ new.base_x = NewBase(m, "coordinate_x")
                   /\ new.base_y = NewBase(m, "coordinate_y")
                   /\ \/ old.base_x = NULLCOORD
                      \/ old.base_y = NULLCOORD
                      \/ C32_Distance(old.base_x, new.base_x)
                            >= summ.args.base_location_tolerance_in_millimeter
                      \/ C32_Distance(old.base_y, new.base_y)
                            >= summ.args.base_location_tolerance_in_millimeter]_vars

\* after a second pass an object keeps a stored base that the sightings in
\* the window would move by less than the tolerance
C32_Witness ==
    /\ summ.pc = "done" /\ summ.ret = WORK_SUCCESSFULLY /\ summ.calls = 2
    /\ \E m \in DOMAIN object_summary_table :
          /\ object_summary_table[m].base_x # NULLCOORD
          /\ BaseBeacons(m) # {}
          /\ NewBase(m, "coordinate_x") # object_summary_table[m].base_x
          /\ C32_Distance(NewBase(m, "coordinate_x"), object_summary_table[m].base_x)
                < summ.args.base_location_tolerance_in_millimeter


\* the statements of a maintenance call
C33_Statements(op) ==
    IF op = "SQL_vacuum_database"
    THEN {table_name[idx] : idx \in DOMAIN table_name}
    ELSE {"notification_table", "tracking_table"}

\* a failing notification DELETE is followed by drop_chunks on tracking_table
C33_DeleteThenDropChunks ==
    \A retention_hours \in {0, 1} :
       (GetSucceeds /\ SQL_delete_old_data(retention_hours, FALSE, TRUE))
          => /\ "tracking_table" \in maint'.executed
             /\ tracking_table' = DropChunks(tracking_table, retention_hours)

\* a failing VACUUM is followed by the VACUUM of the remaining tables
C33_VacuumRemaining ==
    \A fail \in DOMAIN table_name :
       (GetSucceeds /\ SQL_vacuum_database(fail))
          => maint'.executed = C33_Statements("SQL_vacuum_database") \ {table_name[fail]}

\* WORK_SUCCESSFULLY is returned only if every statement was executed
C33_SuccessMeansAllExecuted ==
    (maint' # maint /\ maint'.ret = WORK_SUCCESSFULLY)
       => maint'.executed = C33_Statements(maint'.op)

\* C33: retention and vacuum treat their targets independently: in
\* SQL_delete_old_data a failure of the notification DELETE does not prevent
\* drop_chunks on tracking_table, in SQL_vacuum_database a failure on one
\* table does not prevent VACUUM of the remaining tables, and each function
\* returns WORK_SUCCESSFULLY only if every one of its statements was executed
\* successfully.
C33_TargetsIndependent ==
    [][C33_DeleteThenDropChunks /\ C33_VacuumRemaining /\ C33_SuccessMeansAllExecuted]_vars


\* the first k records of a batch applied to the table, one after the other
RECURSIVE C34_GatewayPrefix(_, _, _)
C34_GatewayPrefix(table, toks, k) ==
    IF k = 0 THEN table
    ELSE C34_GatewayPrefix(GatewayUpsert(table, toks[1]), Drop(toks, 1), k - 1)

RECURSIVE C34_LbeaconPrefix(_, _, _, _)
C34_LbeaconPrefix(table, toks, k, gateway_ip_address) ==
    IF k = 0 THEN table
    ELSE C34_LbeaconPrefix(LbeaconUpsert(table, toks[1], toks[3],
                                         gateway_ip_address, toks[2]),
                           Drop(toks, 3), k - 1, gateway_ip_address)

\* the call that returns in this step, if one does
C34_Call == reg'.hist[Len(reg'.hist)]

C35_RowAfterFirstSighting ==
    [][(summ.pc = "base" /\ summ'.pc = "done" /\ summ'.ret = WORK_SUCCESSFULLY)
          => tracking_table[1].object_mac_address
                \in DOMAIN object_summary_table']_vars


\* C36: when SQL_create_database_connection_pool(conninfo, head, n) has
\* returned WORK_SUCCESSFULLY, the pool list holds exactly n distinct entries
\* with serial ids 0..n-1, each with its own database handle and
\* is_used = 0, for every n >= 1, those above MEMORY_ALLOCATE_RETRIES
\* included.
C36_PoolOfNEntries ==
    [][(~pool_created /\ pool_created')
          => /\ Len(ListNodes') = max_connection'
             /\ Cardinality({ListNodes'[k] : k \in DOMAIN ListNodes'}) = max_connection'
             /\ {entry'[ListNodes'[k]].serial_id : k \in DOMAIN ListNodes'}
                   = 0..(max_connection' - 1)
             /\ Cardinality({entry'[ListNodes'[k]].db : k \in DOMAIN ListNodes'})
                   = max_connection'
             /\ \A k \in DOMAIN ListNodes' : entry'[ListNodes'[k]].is_used = 0]_vars


\* C37: under any interleaving of SQL_destroy_database_connection_pool with
\* running operations, no connection is closed and freed while an operation
\* holds it, and no operation holds a connection that destroy has closed:
\* every serial id an operation holds belongs to an entry of the pool.
C37_HeldConnectionsOpen ==
    \A t \in Threads : \A s \in holds[t] :
       \E k \in DOMAIN ListNodes : entry[ListNodes[k]].serial_id = s


\* the ingest is inside an iteration of while(numbers --) of the first type
C38_InFirstTypeRecord ==
    /\ ing.num_types = 1
    /\ ing.pc \in {"panic_get", "panic_exec", "panic_release", "write"}

\* C38: the tracking ingest does a bounded amount of work for every payload:
\* a declared object count that is zero, negative or not a number produces no
\* sub-record iteration for that object type, and the number of CSV rows
\* written never exceeds the number of records present in the payload.
C38_BoundedByRecordsPresent ==
    ing.pc # "idle" =>
       /\ ing.report.c1 \in {"0", "-1", "x"} => ~C38_InFirstTypeRecord
       /\ Len(csv_file) <= Len(ing.report.r1) + Len(ing.report.r2)


\* the location columns of a summary row
C39_Location(row) ==
    <<row.uuid, row.rssi, row.first_seen_timestamp, row.last_seen_timestamp>>

\* the object has, in the window the statement that runs now sees, a
\* (mac, beacon) group of sightings with average rssi > -100
C39_Sighted(m) == LocationCandidates(m) # {}

\* an UPDATE of the pass succeeds in this step
C39_UpdateSucceeds(at, next) ==
    /\ summ.pc = at /\ summ'.pc = next
    /\ summ.reset = WORK_SUCCESSFULLY /\ summ'.ret # E_SQL_EXECUTE

\* C39: in a summarizer pass whose updates succeed, when the stable-tag and
\* the moving-tag UPDATE have run, a row has is_location_updated = 1 if the
\* object has a group of sightings with average rssi > -100 in the window,
\* and only if it had one when one of the two UPDATEs ran; the base step
\* leaves the flag as it is; and no UPDATE of the pass changes uuid, rssi,
\* first_seen_timestamp or last_seen_timestamp of an object without such a
\* group, whose flag is 0.
C39_UpdatedIffSighted ==
    [][\A m \in DOMAIN object_summary_table :
          LET old == object_summary_table[m]
              new == object_summary_table'[m]
          IN /\ C39_UpdateSucceeds("moving", "base")
                  => /\ C39_Sighted(m) => new.is_location_updated = 1
                     /\ new.is_location_updated = 1
                           => (m \in summ.located \/ C39_Sighted(m))
             /\ C39_UpdateSucceeds("base", "done")
                  => new.is_location_updated = old.is_location_updated
             /\ (\/ C39_UpdateSucceeds("stable", "moving")
                 \/ C39_UpdateSucceeds("moving", "base")
                 \/ C39_UpdateSucceeds("base", "done"))
                  => (~C39_Sighted(m)
                        => /\ C39_Location(new) = C39_Location(old)
                           /\ new.is_location_updated = old.is_location_updated)
             /\ C39_UpdateSucceeds("stable", "moving")
                  => (~C39_Sighted(m) => new.is_location_updated = 0)]_vars

\* the moving-tag UPDATE of a pass has run: one object is flagged, and in
\* another pass an object without sightings above the floor is not
C39_Witness ==
    /\ summ.pc = "base"
    /\ summ.reset = WORK_SUCCESSFULLY
    /\ summ.calls = 2
    /\ \E m \in DOMAIN object_summary_table :
          /\ object_summary_table[m].is_location_updated = 0
          /\ object_summary_table[m].uuid # NULL
          /\ ~C39_Sighted(m)
          /\ \E k \in DOMAIN tracking_table :
                tracking_table[k].object_mac_address = m


\* C40: every notification inserted by SQL_collect_violation_events is
\* eventually included in the output of a SQL_get_and_update_violation_events
\* call, because SQL_delete_old_data never deletes a notification whose
\* processed flag is still 0: a notification that leaves notification_table
\* has processed = 1.
C40_UnprocessedNeverDeleted ==
    [][\A k \in DOMAIN notification_table :
          (\A j \in DOMAIN notification_table' :
              notification_table'[j].id # notification_table[k].id)
             => notification_table[k].processed = 1]_vars

====
